---------------------------- MODULE Spec2Model ----------------------------
(***************************************************************************)
(* Model of src/normalizar_datos.py: the reference extractor, the range    *)
(* parser, the Guatemala category decomposer and the normalization driver. *)
(*                                                                         *)
(* Python strings are TLA+ strings, read character by character with       *)
(* SubSeq; Python None, floats and raised exceptions are tagged records.   *)
(***************************************************************************)
EXTENDS Integers, Sequences, FiniteSets, TLC

VARIABLES pc, valor, retorno, pos, datos_normalizados

vars == <<pc, valor, retorno, pos, datos_normalizados>>

-----------------------------------------------------------------------------
(* Python values *)

None == [t |-> "None"]

Str(s) == [t |-> "str", s |-> s]

\* a raised exception, as the outcome of a call
ValueError == [t |-> "ValueError"]

\* a returned value, as the outcome of a call
Return(v) == [t |-> "return", v |-> v]

\* no outcome yet
Pending == [t |-> "pending"]

Fin(neg, m, e) == [t |-> "float", cls |-> "fin", neg |-> neg, m |-> m, e |-> e]

Inf(neg) == [t |-> "float", cls |-> "inf", neg |-> neg, m |-> 0, e |-> 0]

NaN == [t |-> "float", cls |-> "nan", neg |-> FALSE, m |-> 0, e |-> 0]

-----------------------------------------------------------------------------
(* str methods *)

Ch(s, i) == SubSeq(s, i, i)

Desde(s, i) == SubSeq(s, i, Len(s))

Whitespace == {" ", "\t", "\n", "\r"}

StripDe(s, keep) ==
    IF keep = {} THEN ""
    ELSE SubSeq(s, CHOOSE i \in keep : \A j \in keep : i <= j,
                   CHOOSE i \in keep : \A j \in keep : j <= i)

\* str.strip(): leading and trailing whitespace removed
Strip(s) == StripDe(s, {i \in 1..Len(s) : Ch(s, i) \notin Whitespace})

StartsAt(s, sub, i) ==
    /\ i >= 1
    /\ i + Len(sub) - 1 <= Len(s)
    /\ SubSeq(s, i, i + Len(sub) - 1) = sub

\* sub in s
Contains(s, sub) == \E i \in 1..(Len(s) - Len(sub) + 1) : StartsAt(s, sub, i)

\* the least element of a set of positions, 0 for the empty set
Primero(hits) == IF hits = {} THEN 0 ELSE CHOOSE i \in hits : \A j \in hits : i <= j

\* str.find, 1-based; 0 when absent
Find(s, sub) == Primero({i \in 1..(Len(s) - Len(sub) + 1) : StartsAt(s, sub, i)})

UpperToLower ==
    [c \in {"A","B","C","D","E","F","G","H","I","J","K","L","M","N","O","P",
            "Q","R","S","T","U","V","W","X","Y","Z","Á","É","Í","Ó","Ú","Ñ"} |->
        CASE c = "A" -> "a" [] c = "B" -> "b" [] c = "C" -> "c" [] c = "D" -> "d"
          [] c = "E" -> "e" [] c = "F" -> "f" [] c = "G" -> "g" [] c = "H" -> "h"
          [] c = "I" -> "i" [] c = "J" -> "j" [] c = "K" -> "k" [] c = "L" -> "l"
          [] c = "M" -> "m" [] c = "N" -> "n" [] c = "O" -> "o" [] c = "P" -> "p"
          [] c = "Q" -> "q" [] c = "R" -> "r" [] c = "S" -> "s" [] c = "T" -> "t"
          [] c = "U" -> "u" [] c = "V" -> "v" [] c = "W" -> "w" [] c = "X" -> "x"
          [] c = "Y" -> "y" [] c = "Z" -> "z" [] c = "Á" -> "á" [] c = "É" -> "é"
          [] c = "Í" -> "í" [] c = "Ó" -> "ó" [] c = "Ú" -> "ú" [] c = "Ñ" -> "ñ"]

RECURSIVE Lower(_)
\* str.lower()
Lower(s) ==
    IF Len(s) <= 1 THEN (IF s \in DOMAIN UpperToLower THEN UpperToLower[s] ELSE s)
    ELSE Lower(SubSeq(s, 1, Len(s) \div 2)) \o Lower(SubSeq(s, Len(s) \div 2 + 1, Len(s)))

RECURSIVE Replace(_, _, _)
ReplaceDe(s, old, new, i) ==
    IF i = 0 THEN s
    ELSE SubSeq(s, 1, i - 1) \o new \o Replace(Desde(s, i + Len(old)), old, new)

\* str.replace(old, new), old non-empty: every non-overlapping occurrence, left to right
Replace(s, old, new) == ReplaceDe(s, old, new, Find(s, old))

RECURSIVE Split(_, _)
SplitDe(s, sep, i) ==
    IF i = 0 THEN <<s>>
    ELSE <<SubSeq(s, 1, i - 1)>> \o Split(Desde(s, i + Len(sep)), sep)

\* str.split(sep), sep non-empty
Split(s, sep) == SplitDe(s, sep, Find(s, sep))

Split1De(s, sep, i) ==
    IF i = 0 THEN <<s>> ELSE <<SubSeq(s, 1, i - 1), Desde(s, i + Len(sep))>>

\* str.split(sep, 1)
Split1(s, sep) == Split1De(s, sep, Find(s, sep))

-----------------------------------------------------------------------------
(* float(str): the builtin's grammar and value.  A finite float is kept as *)
(* its canonical decimal m * 10^e (m without trailing zeros), which is     *)
(* exact for the short decimal texts of the model.                         *)

Digits == {"0", "1", "2", "3", "4", "5", "6", "7", "8", "9"}

DigitVal(c) ==
    CASE c = "0" -> 0 [] c = "1" -> 1 [] c = "2" -> 2 [] c = "3" -> 3 [] c = "4" -> 4
      [] c = "5" -> 5 [] c = "6" -> 6 [] c = "7" -> 7 [] c = "8" -> 8 [] c = "9" -> 9

\* digit (["_"] digit)*
IsDigitPart(x) ==
    /\ x # ""
    /\ \A i \in 1..Len(x) : Ch(x, i) \in Digits \cup {"_"}
    /\ Ch(x, 1) \in Digits
    /\ Ch(x, Len(x)) \in Digits
    /\ ~Contains(x, "__")

RECURSIVE Num(_)
Num(x) == IF x = "" THEN 0 ELSE Num(SubSeq(x, 1, Len(x) - 1)) * 10 + DigitVal(Ch(x, Len(x)))

RECURSIVE NumDigits(_)
NumDigits(m) == IF m < 10 THEN 1 ELSE 1 + NumDigits(m \div 10)

RECURSIVE Pow10(_)
Pow10(n) == IF n <= 0 THEN 1 ELSE 10 * Pow10(n - 1)

RECURSIVE Canon(_, _, _)
Canon(neg, m, e) ==
    IF m = 0 THEN Fin(neg, 0, 0)
    ELSE IF m % 10 = 0 THEN Canon(neg, m \div 10, e + 1)
    ELSE Fin(neg, m, e)

\* the largest double is 1.7976931348623157e308, the smallest 5e-324:
\* f has nd digits, m9 is its first nine
RoundedDe(f, nd, m9) ==
    IF f.m = 0 THEN f
    ELSE IF nd + f.e - 1 > 308 \/ (nd + f.e - 1 = 308 /\ m9 > 179769313) THEN Inf(f.neg)
    ELSE IF nd + f.e - 1 < 0 - 324 THEN Fin(f.neg, 0, 0)
    ELSE f

NueveDigitos(m, nd) == IF nd <= 9 THEN m * Pow10(9 - nd) ELSE m \div Pow10(nd - 9)

RoundedNd(f, nd) == RoundedDe(f, nd, NueveDigitos(f.m, nd))

Rounded(f) == RoundedNd(f, NumDigits(f.m))

SinSigno(x) == IF x # "" /\ Ch(x, 1) \in {"+", "-"} THEN Desde(x, 2) ELSE x

EsNegativo(x) == x # "" /\ Ch(x, 1) = "-"

\* the value of a digitpart
Valor(x) == Num(Replace(x, "_", ""))

\* [sign] digitpart after the "e"
Exponente(expo) ==
    IF ~IsDigitPart(SinSigno(expo)) THEN ValueError
    ELSE IF EsNegativo(expo) THEN Return(0 - Valor(SinSigno(expo)))
    ELSE Return(Valor(SinSigno(expo)))

\* digitpart: (digits, number of fraction digits)
Entera(mant) == IF IsDigitPart(mant) THEN Return(<<Valor(mant), 0>>) ELSE ValueError

\* [digitpart] "." [digitpart], not both empty
Fraccion(ip, fp) ==
    IF /\ ip = "" \/ IsDigitPart(ip)
       /\ fp = "" \/ IsDigitPart(fp)
       /\ ~(ip = "" /\ fp = "")
    THEN Return(<<Num(Replace(ip, "_", "") \o Replace(fp, "_", "")),
                  Len(Replace(fp, "_", ""))>>)
    ELSE ValueError

MantisaDe(mant, dPos) ==
    IF dPos = 0 THEN Entera(mant)
    ELSE Fraccion(SubSeq(mant, 1, dPos - 1), Desde(mant, dPos + 1))

Mantisa(mant) == MantisaDe(mant, Find(mant, "."))

Combinar(neg, m, x) ==
    IF m.t = "return" /\ x.t = "return"
    THEN Rounded(Canon(neg, m.v[1], x.v - m.v[2]))
    ELSE ValueError

DecimalDe(neg, b, ePos) ==
    IF ePos = 0 THEN Combinar(neg, Mantisa(b), Return(0))
    ELSE Combinar(neg, Mantisa(SubSeq(b, 1, ePos - 1)), Exponente(Desde(b, ePos + 1)))

\* mantissa ["e" exponent], in lower case
Decimal(neg, b) == DecimalDe(neg, b, Find(b, "e"))

FloatDe(neg, low) ==
    IF low \in {"inf", "infinity"} THEN Inf(neg)
    ELSE IF low = "nan" THEN NaN
    ELSE Decimal(neg, low)

FloatStrip(t) == FloatDe(EsNegativo(t), Lower(SinSigno(t)))

\* float(s): a float, or ValueError raised
PyFloat(s) == FloatStrip(Strip(s))

-----------------------------------------------------------------------------
(* parsear_rango *)

\* the table with one more token
casos_especiales_con_junio ==
    << <<"may-15", "5 - 15">>, <<"may-25", "5 - 25">>, <<"ene-50", "1 - 50">>,
       <<"feb-20", "2 - 20">>, <<"feb-60", "2 - 60">>, <<"abr-35", "4 - 35">>,
       <<"dic-00", "12 - 0">>, <<"1-dic", "1 - 12">>, <<"mar-40", "3 - 40">>,
       <<"jun-15", "6 - 15">> >>

casos_especiales ==
    << <<"may-15", "5 - 15">>, <<"may-25", "5 - 25">>, <<"ene-50", "1 - 50">>,
       <<"feb-20", "2 - 20">>, <<"feb-60", "2 - 60">>, <<"abr-35", "4 - 35">>,
       <<"dic-00", "12 - 0">>, <<"1-dic", "1 - 12">>, <<"mar-40", "3 - 40">> >>

RECURSIVE ReemplazarCasosSensible(_, _)
\* the special cases matched in the letter case of the input only
ReemplazarCasosSensible(v, k) ==
    IF k > Len(casos_especiales) THEN v
    ELSE IF Contains(v, casos_especiales[k][1])
    THEN ReemplazarCasosSensible(Replace(v, casos_especiales[k][1], casos_especiales[k][2]),
                                 k + 1)
    ELSE ReemplazarCasosSensible(v, k + 1)

RECURSIVE ReemplazarCasos(_, _)
\* the loop over casos_especiales, from case k on
ReemplazarCasos(v, k) ==
    IF k > Len(casos_especiales) THEN v
    ELSE IF Contains(Lower(v), casos_especiales[k][1])
    THEN ReemplazarCasos(Replace(Lower(v), casos_especiales[k][1], casos_especiales[k][2]), k + 1)
    ELSE ReemplazarCasos(v, k + 1)

\* valor after strip() and the replacement of the special cases
ValorCorregido(s) == ReemplazarCasos(Strip(s), 1)

\* the bare hyphen is no separator when it is the first character
PartesSinGuionInicial(v) ==
    IF Contains(v, " - ") THEN Split(v, " - ")
    ELSE IF Contains(v, "-") /\ ~Contains(Lower(v), "no establecido") /\ Ch(v, 1) # "-"
    THEN Split(v, "-")
    ELSE <<>>

\* only the padded hyphen separates
PartesSoloEspacios(v) == IF Contains(v, " - ") THEN Split(v, " - ") ELSE <<>>

\* partes: the list of sides, or None
Partes(v) ==
    IF Contains(v, " - ") THEN Split(v, " - ")
    ELSE IF Contains(v, "-") /\ ~Contains(Lower(v), "no establecido") THEN Split(v, "-")
    ELSE <<>>

\* except: the exception raised in the try block is replaced by None
Except(num) == IF num.t = "ValueError" THEN None ELSE num

\* float(clean) outside any try block
FloatSinExcept(clean) == PyFloat(clean)

\* try: float(clean) / except: None
FloatONone(clean) == Except(PyFloat(clean))

\* the decimal comma left as it is
ProcesarLadoSinComa(lado) ==
    IF Contains(Lower(lado), "no establecido") \/ lado = "" THEN None
    ELSE FloatONone(lado)

\* min_num / max_num of one side
ProcesarLado(lado) ==
    IF Contains(Lower(lado), "no establecido") \/ lado = "" THEN None
    ELSE FloatONone(Replace(lado, ",", "."))

\* x > y for two finite floats that are not negative
MayorQue(x, y) ==
    IF x.m = 0 THEN FALSE
    ELSE IF y.m = 0 THEN TRUE
    ELSE \/ NumDigits(x.m) + x.e > NumDigits(y.m) + y.e
         \/ /\ NumDigits(x.m) + x.e = NumDigits(y.m) + y.e
            /\ x.m * Pow10(9 - NumDigits(x.m)) > y.m * Pow10(9 - NumDigits(y.m))

\* the returns of the two-sided branch with the smaller bound put first
CompletarOrdenado(min_num, max_num) ==
    IF min_num.t = "ValueError" \/ max_num.t = "ValueError" THEN ValueError
    ELSE IF min_num = None /\ max_num # None THEN Return(<<max_num, max_num>>)
    ELSE IF max_num = None /\ min_num # None THEN Return(<<min_num, min_num>>)
    ELSE IF min_num # None /\ min_num.cls = "fin" /\ max_num.cls = "fin"
            /\ ~min_num.neg /\ ~max_num.neg /\ MayorQue(min_num, max_num)
    THEN Return(<<max_num, min_num>>)
    ELSE Return(<<min_num, max_num>>)

\* the two sides returned as parsed, a missing bound left missing
CompletarSinRelleno(min_num, max_num) ==
    IF min_num.t = "ValueError" \/ max_num.t = "ValueError" THEN ValueError
    ELSE Return(<<min_num, max_num>>)

\* the returns of the two-sided branch: the known bound fills the missing one
Completar(min_num, max_num) ==
    IF min_num.t = "ValueError" \/ max_num.t = "ValueError" THEN ValueError
    ELSE IF min_num = None /\ max_num # None THEN Return(<<max_num, max_num>>)
    ELSE IF max_num = None /\ min_num # None THEN Return(<<min_num, min_num>>)
    ELSE Return(<<min_num, max_num>>)

\* the sides swapped
ParsearDosLadosInvertido(partes) ==
    Completar(ProcesarLado(Strip(partes[2])), ProcesarLado(Strip(partes[1])))

\* the branch taken when partes has exactly two sides
ParsearDosLados(partes) ==
    Completar(ProcesarLado(Strip(partes[1])), ProcesarLado(Strip(partes[2])))

\* return num, num
Doble(num) == IF num.t = "ValueError" THEN ValueError ELSE Return(<<num, num>>)

\* the single value parsed with its decimal comma left as it is
ParsearValorUnicoSinComa(v) ==
    IF Contains(Lower(v), "none") \/ Contains(Lower(v), "no establecido")
    THEN Return(<<None, None>>)
    ELSE Doble(FloatONone(v))

\* the branch of a single value
ParsearValorUnico(v) ==
    IF Contains(Lower(v), "none") \/ Contains(Lower(v), "no establecido")
    THEN Return(<<None, None>>)
    ELSE Doble(FloatONone(Replace(v, ",", ".")))

\* the first two of three or more parts parsed as the two sides
ParsearPrimerasDos(v, partes) ==
    IF Len(partes) >= 2 THEN ParsearDosLados(partes) ELSE ParsearValorUnico(v)

\* if partes and len(partes) == 2: ... else: ...
ParsearCorregido(v, partes) ==
    IF Len(partes) = 2 THEN ParsearDosLados(partes) ELSE ParsearValorUnico(v)

\* the body of parsear_rango after the replacement of the special cases
ParsearLimpio(v) == ParsearCorregido(v, Partes(v))

\* valor.strip() with neither the guard of the first line nor str(valor)
ParsearRangoSinGuarda(v0) ==
    IF v0 = None THEN [t |-> "AttributeError"]
    ELSE ParsearLimpio(ValorCorregido(v0.s))

\* parsear_rango(valor): valor is None or Str(s)
ParsearRango(v0) ==
    IF v0 = None \/ v0.s \in {"", "No establecidos", "No establecido"}
    THEN Return(<<None, None>>)
    ELSE ParsearLimpio(ValorCorregido(v0.s))

-----------------------------------------------------------------------------
(* extraer_referencias *)

FinDe(i, k, minimo) == IF k >= minimo + 1 THEN i + k ELSE 0

\* The end of the group that starts at i: s[i] is abre, the first cierra after
\* it comes after at least minimo characters.  0 when no group starts at i.
FinGrupo(s, i, abre, cierra, minimo) ==
    IF i > Len(s) \/ Ch(s, i) # abre THEN 0
    ELSE FinDe(i, Find(Desde(s, i + 1), cierra), minimo)

TrasDe(s, rest) ==
    IF rest = {} THEN Len(s) + 1 ELSE CHOOSE j \in rest : \A k \in rest : j <= k

\* The first position at or after i that is not whitespace (Len(s) + 1 if none)
TrasEspacios(s, i) == TrasDe(s, {j \in i..Len(s) : Ch(s, j) \notin Whitespace})

RECURSIVE FindAllGrupos(_, _, _, _)
\* the match that starts at i and ends at f, then the matches after it
FindAllDesde(s, abre, cierra, minimo, i, f) ==
    IF i = 0 THEN <<>>
    ELSE <<SubSeq(s, i + 1, f - 1)>> \o FindAllGrupos(Desde(s, f + 1), abre, cierra, minimo)

FindAllPrimero(s, abre, cierra, minimo, i) ==
    FindAllDesde(s, abre, cierra, minimo, i, FinGrupo(s, i, abre, cierra, minimo))

\* re.findall(abre (contenido) cierra, s): the contents of the groups, left to right
FindAllGrupos(s, abre, cierra, minimo) ==
    FindAllPrimero(s, abre, cierra, minimo,
                   Primero({i \in 1..Len(s) : FinGrupo(s, i, abre, cierra, minimo) > 0}))

\* re.sub with count=1: only the first group removed
SubSoloPrimero(s, abre, cierra, minimo, i, f) ==
    IF i = 0 THEN s ELSE SubSeq(s, 1, i - 1) \o Desde(s, f + 1)

RECURSIVE SubGrupos(_, _, _, _)
\* the match that starts at i and ends at f is removed, then the matches after it
SubDesde(s, abre, cierra, minimo, i, f) ==
    IF i = 0 THEN s
    ELSE SubSeq(s, 1, i - 1) \o SubGrupos(Desde(s, f + 1), abre, cierra, minimo)

SubPrimero(s, abre, cierra, minimo, i) ==
    SubDesde(s, abre, cierra, minimo, i,
             FinGrupo(s, TrasEspacios(s, i), abre, cierra, minimo))

\* re.sub(\s* abre contenido cierra, '', s)
SubGrupos(s, abre, cierra, minimo) ==
    SubPrimero(s, abre, cierra, minimo,
               Primero({i \in 1..Len(s) :
                           FinGrupo(s, TrasEspacios(s, i), abre, cierra, minimo) > 0}))

\* the markers kept as split, untrimmed
SinStrip(refs) == refs

\* [ref.strip() for ref in match.split(',')]
StripCadaUno(refs) == [k \in 1..Len(refs) |-> Strip(refs[k])]

RefsDeGrupo(match) == StripCadaUno(Split(match, ","))

RECURSIVE Extend(_, _)
\* referencias after the loop over the matches from k on
Extend(matches, k) ==
    IF k > Len(matches) THEN <<>> ELSE RefsDeGrupo(matches[k]) \o Extend(matches, k + 1)

\* the body of extraer_referencias on valor_str
ExtraerDe(valor_str) ==
    << Strip(SubGrupos(valor_str, "[", "]", 1)),
       Extend(FindAllGrupos(valor_str, "[", "]", 1), 1) >>

\* extraer_referencias(valor): (valor_limpio, referencias)
ExtraerReferencias(v0) ==
    IF v0 = None THEN <<"None", <<>> >>
    ELSE IF v0.s = "" THEN <<"", <<>> >>
    ELSE ExtraerDe(Strip(v0.s))

-----------------------------------------------------------------------------
(* parsear_guatemala *)

\* tipo_completo
TipoCompleto(tipo) ==
    CASE tipo = "AL" -> "Suplementos Alimenticios"
      [] tipo = "PF" -> "Productos Farmacéuticos"
      [] tipo = "UL" -> "Límite Superior"
      [] OTHER -> tipo

\* resultados.append({...}) before the entries of the later segments
Append1(tipo, r, resto) ==
    IF r.t # "return" THEN r
    ELSE IF resto.t # "return" THEN resto
    ELSE Return(<< [categoria |-> TipoCompleto(tipo), minimo |-> r.v[1], maximo |-> r.v[2]] >>
                \o resto.v)

\* tipo, rango = parte.split(':', 1) and the entry of the segment
ParsearSegmento(tr, resto) ==
    Append1(Strip(tr[1]), ParsearRango(Str(Strip(tr[2]))), resto)

\* one segment: skipped without a colon
ParsearParte(parte, resto) ==
    IF ~Contains(parte, ":") THEN resto ELSE ParsearSegmento(Split1(parte, ":"), resto)

RECURSIVE ParsearPartes(_, _)
\* the loop over partes from k on: the entries appended, or the exception raised
ParsearPartes(partes, k) ==
    IF k > Len(partes) THEN Return(<<>>)
    ELSE ParsearParte(Strip(partes[k]), ParsearPartes(partes, k + 1))

\* valor.strip() with neither the guard of the first line nor str(valor)
ParsearGuatemalaSinGuarda(v0) ==
    IF v0 = None THEN [t |-> "AttributeError"]
    ELSE ParsearPartes(Split(Strip(v0.s), "/"), 1)

\* parsear_guatemala(valor)
ParsearGuatemala(v0) ==
    IF v0 = None \/ Contains(v0.s, "No establecidos") THEN Return(<<>>)
    ELSE ParsearPartes(Split(Strip(v0.s), "/"), 1)

-----------------------------------------------------------------------------
(* The source tables of normalizar_datos_suplementos: per country, in the  *)
(* order of declaration, the pairs (ingredient label, value).              *)

vitaminas_raw ==
    <<
       <<"Argentina", <<
          <<"Vitamina A / Retinol (µg)", "180 - 3000 [1]">>,
          <<"Ácido Fólico (µg)", "72 - 1000 [2]">>,
          <<"Beta Caroteno (mg)", "1,08 - 17,96 [3]">>,
          <<"Biotina (µg)", "9 - 2500 [4]">>,
          <<"Vit B1 / Tiamina (mg)", "0,36 - 100 [5]">>,
          <<"Vit B2 / Riboflavina (mg)", "0,39 - 200 [6]">>,
          <<"Vit B3 / Niacina (mg)", "4,8 - 500 [7]">>,
          <<"Vit B5 / Ac. Pantoténico (mg)", "1,5 - 1000 [8]">>,
          <<"Vit B6 / Piridoxina (mg)", "0,39 - 100 [9]">>,
          <<"Vit B12 / Cianocobalamina (µg)", "0,72 - 3000 [10]">>,
          <<"Vit C / Ac. Ascórbico (mg)", "13,5 - 2000 [11]">>,
          <<"Vitamina D (µg)", "1,5 - 100 [12]">>,
          <<"Vitamina E /d-tocoferol (mg)", "3 - 1000 [13]">>,
          <<"Vitamina K (µg)", "19,5 - 10000 [14]">>,
          <<"Colina (mg)", "No establecidos">> >> >>,
       <<"Brasil", <<
          <<"Vitamina A / Retinol (µg)", "135 - 2623,61 [15]">>,
          <<"Ácido Fólico (µg)", "60 - 1281,5 [16]">>,
          <<"Beta Caroteno (mg)", "0,8 - 12,12 [17]">>,
          <<"Biotina (µg)", "4,5 - 5,64 [18]">>,
          <<"Vit B1 / Tiamina (mg)", "0,18 - 2,02 [19]">>,
          <<"Vit B2 / Riboflavina (mg)", "0,2 - 2,74 [20]">>,
          <<"Vit B3 / Niacina (mg)", "2,4 - 35 [21]">>,
          <<"Vit B5 / Ac. Pantoténico (mg)", "0,75 - 5,64 [22]">>,
          <<"Vit B6 / Piridoxina (mg)", "0,26 - 98,60 [23]">>,
          <<"Vit B12 / Cianocobalamina (µg)", "0,36 - 9,64 [24]">>,
          <<"Vit C / Ac. Ascórbico (mg)", "13,5 - 1916,02 [25]">>,
          <<"Vitamina D (µg)", "3 - 50 [26]">>,
          <<"Vitamina E /d-tocoferol (mg)", "2,25 - 1000 [27]">>,
          <<"Vitamina K (µg)", "0,18 - 149,06 [28]">>,
          <<"Colina (mg)", "82,5 - 3235,15">> >> >>,
       <<"Chile", <<
          <<"Vitamina A / Retinol (µg)", "200 - 1000">>,
          <<"Ácido Fólico (µg)", "100 - 500">>,
          <<"Beta Caroteno (mg)", "may-15">>,
          <<"Biotina (µg)", "30 - 150">>,
          <<"Vit B1 / Tiamina (mg)", "0,7 - 6">>,
          <<"Vit B2 / Riboflavina (mg)", "0,8 - 6">>,
          <<"Vit B3 / Niacina (mg)", "4,5 - 20">>,
          <<"Vit B5 / Ac. Pantoténico (mg)", "may-25">>,
          <<"Vit B6 / Piridoxina (mg)", "ene-50">>,
          <<"Vit B12 / Cianocobalamina (µg)", "1-dic">>,
          <<"Vit C / Ac. Ascórbico (mg)", "60 - 1000">>,
          <<"Vitamina D (µg)", "feb-20">>,
          <<"Vitamina E /d-tocoferol (mg)", "20 - 500">>,
          <<"Vitamina K (µg)", "80 - 600">>,
          <<"Colina (mg)", "275 - 2000">> >> >>,
       <<"Colombia", <<
          <<"Vitamina A / Retinol (µg)", "No establecido - 3000 [29]">>,
          <<"Ácido Fólico (µg)", "No establecido - 1000">>,
          <<"Beta Caroteno (mg)", "No establecido - 72">>,
          <<"Biotina (µg)", "No establecido - 900">>,
          <<"Vit B1 / Tiamina (mg)", "No establecido - 100 [30]">>,
          <<"Vit B2 / Riboflavina (mg)", "No establecido - 40">>,
          <<"Vit B3 / Niacina (mg)", "No establecido - 35">>,
          <<"Vit B5 / Ac. Pantoténico (mg)", "No establecido - 200">>,
          <<"Vit B6 / Piridoxina (mg)", "No establecido - 100">>,
          <<"Vit B12 / Cianocobalamina (µg)", "No establecido - 2000 [31]">>,
          <<"Vit C / Ac. Ascórbico (mg)", "No establecido - 1000">>,
          <<"Vitamina D (µg)", "No establecido - 50">>,
          <<"Vitamina E /d-tocoferol (mg)", "No establecido - 1000">>,
          <<"Vitamina K (µg)", "No establecido - 1000 [32]">>,
          <<"Colina (mg)", "No establecidos">> >> >>,
       <<"Costa Rica", <<
          <<"Vitamina A / Retinol (µg)", "300 - 3000">>,
          <<"Ácido Fólico (µg)", "80 - 1000">>,
          <<"Beta Caroteno (mg)", "No establecido - 25">>,
          <<"Biotina (µg)", "60 - No establecido">>,
          <<"Vit B1 / Tiamina (mg)", "0,3 - No establecido">>,
          <<"Vit B2 / Riboflavina (mg)", "0,34 - No establecido">>,
          <<"Vit B3 / Niacina (mg)", "abr-35">>,
          <<"Vit B5 / Ac. Pantoténico (mg)", "2 - No establecido">>,
          <<"Vit B6 / Piridoxina (mg)", "0,4 - 100">>,
          <<"Vit B12 / Cianocobalamina (µg)", "1,2 - No establecido">>,
          <<"Vit C / Ac. Ascórbico (mg)", "dic-00">>,
          <<"Vitamina D (µg)", "feb-60">>,
          <<"Vitamina E /d-tocoferol (mg)", "4 - 1000">>,
          <<"Vitamina K (µg)", "16 - No establecido">>,
          <<"Colina (mg)", "None">> >> >>,
       <<"República Dominicana", <<
          <<"Vitamina A / Retinol (µg)", "No establecido">>,
          <<"Ácido Fólico (µg)", "No establecido">>,
          <<"Beta Caroteno (mg)", "No establecido">>,
          <<"Biotina (µg)", "No establecido">>,
          <<"Vit B1 / Tiamina (mg)", "No establecido">>,
          <<"Vit B2 / Riboflavina (mg)", "No establecido">>,
          <<"Vit B3 / Niacina (mg)", "No establecido">>,
          <<"Vit B5 / Ac. Pantoténico (mg)", "No establecido">>,
          <<"Vit B6 / Piridoxina (mg)", "No establecido">>,
          <<"Vit B12 / Cianocobalamina (µg)", "No establecido">>,
          <<"Vit C / Ac. Ascórbico (mg)", "No establecido">>,
          <<"Vitamina D (µg)", "No establecido">>,
          <<"Vitamina E /d-tocoferol (mg)", "No establecido">>,
          <<"Vitamina K (µg)", "No establecido">>,
          <<"Colina (mg)", "No establecido">> >> >>,
       <<"Ecuador", <<
          <<"Vitamina A / Retinol (µg)", "120 - 3000 [33]">>,
          <<"Ácido Fólico (µg)", "30 - 1000 [34]">>,
          <<"Beta Caroteno (mg)", "0,72 - No establecido [35]">>,
          <<"Biotina (µg)", "45 - No establecido [36]">>,
          <<"Vit B1 / Tiamina (mg)", "0,21 - No establecido [37]">>,
          <<"Vit B2 / Riboflavina (mg)", "0,24 - No establecido [38]">>,
          <<"Vit B3 / Niacina (mg)", "2,7 - 35 [39]">>,
          <<"Vit B5 / Ac. Pantoténico (mg)", "1,5 - No establecido [40]">>,
          <<"Vit B6 / Piridoxina (mg)", "0,3 - 100 [41]">>,
          <<"Vit B12 / Cianocobalamina (µg)", "0,15 - No establecido [42]">>,
          <<"Vit C / Ac. Ascórbico (mg)", "9 - 2000 [43]">>,
          <<"Vitamina D (µg)", "0,75 - 100 [44]">>,
          <<"Vitamina E /d-tocoferol (mg)", "3 - 1000 [45]">>,
          <<"Vitamina K (µg)", "12 - No establecido [46]">>,
          <<"Colina (mg)", "No establecido - 3500 [47]">> >> >>,
       <<"Guatemala", <<
          <<"Vitamina A / Retinol (µg)", "AL:15-3000 / PF:160-3000 [48]">>,
          <<"Ácido Fólico (µg)", "AL:66-1000 / PF:80-1000 [49]">>,
          <<"Beta Caroteno (mg)", "No establecidos">>,
          <<"Biotina (µg)", "UL:8-60 / PF:6-2,5 [50]">>,
          <<"Vit B1 / Tiamina (mg)", "AL:0,02-0,15 / PF:0,24-100 [51]">>,
          <<"Vit B2 / Riboflavina (mg)", "AL:0,32-2,4 / PF:0,24-200 [52]">>,
          <<"Vit B3 / Niacina (mg)", "AL:0,32-900 / PF:3-35 [53]">>,
          <<"Vit B5 / Ac. Pantoténico (mg)", "AL:1-7,5 / PF:1-1000 [54]">>,
          <<"Vit B6 / Piridoxina (mg)", "AL:0,34-25 / PF:0,26-100 [55]">>,
          <<"Vit B12 / Cianocobalamina (µg)", "AL:0,8-6 / PF:0,48-3000 [56]">>,
          <<"Vit C / Ac. Ascórbico (mg)", "AL:22-165 / PF:20-2000 [57]">>,
          <<"Vitamina D (µg)", "AL:3-100 / PF:3-50 [58]">>,
          <<"Vitamina E /d-tocoferol (mg)", "AL:2,6-300 / PF:1,8-1000 [59]">>,
          <<"Vitamina K (µg)", "AL:14-105 / PF:12-10000 [60]">>,
          <<"Colina (mg)", "AL:80-600 / PF:NE-3500 [61]">> >> >>,
       <<"Honduras", <<
          <<"Vitamina A / Retinol (µg)", "No establecidos">>,
          <<"Ácido Fólico (µg)", "No establecidos">>,
          <<"Beta Caroteno (mg)", "No establecidos">>,
          <<"Biotina (µg)", "No establecidos">>,
          <<"Vit B1 / Tiamina (mg)", "No establecidos">>,
          <<"Vit B2 / Riboflavina (mg)", "No establecidos">>,
          <<"Vit B3 / Niacina (mg)", "No establecidos">>,
          <<"Vit B5 / Ac. Pantoténico (mg)", "No establecidos">>,
          <<"Vit B6 / Piridoxina (mg)", "No establecidos">>,
          <<"Vit B12 / Cianocobalamina (µg)", "No establecidos">>,
          <<"Vit C / Ac. Ascórbico (mg)", "No establecidos">>,
          <<"Vitamina D (µg)", "No establecidos">>,
          <<"Vitamina E /d-tocoferol (mg)", "No establecidos">>,
          <<"Vitamina K (µg)", "No establecidos">>,
          <<"Colina (mg)", "No establecidos">> >> >>,
       <<"México", <<
          <<"Vitamina A / Retinol (µg)", "No establecido - 1000">>,
          <<"Ácido Fólico (µg)", "No establecido - 400">>,
          <<"Beta Caroteno (mg)", "No establecido - 15">>,
          <<"Biotina (µg)", "No establecido - 300">>,
          <<"Vit B1 / Tiamina (mg)", "No establecido - 15">>,
          <<"Vit B2 / Riboflavina (mg)", "No establecido - 18">>,
          <<"Vit B3 / Niacina (mg)", "No establecido - 25">>,
          <<"Vit B5 / Ac. Pantoténico (mg)", "No establecido - 20">>,
          <<"Vit B6 / Piridoxina (mg)", "No establecido - 10">>,
          <<"Vit B12 / Cianocobalamina (µg)", "No establecido - 12">>,
          <<"Vit C / Ac. Ascórbico (mg)", "No establecido - 300">>,
          <<"Vitamina D (µg)", "No establecido - 10">>,
          <<"Vitamina E /d-tocoferol (mg)", "No establecido - 200">>,
          <<"Vitamina K (µg)", "No establecido - 30">>,
          <<"Colina (mg)", "No establecidos">> >> >>,
       <<"Nicaragua", <<
          <<"Vitamina A / Retinol (µg)", "No establecido">>,
          <<"Ácido Fólico (µg)", "No establecido">>,
          <<"Beta Caroteno (mg)", "No establecido">>,
          <<"Biotina (µg)", "No establecido">>,
          <<"Vit B1 / Tiamina (mg)", "No establecido">>,
          <<"Vit B2 / Riboflavina (mg)", "No establecido">>,
          <<"Vit B3 / Niacina (mg)", "No establecido">>,
          <<"Vit B5 / Ac. Pantoténico (mg)", "No establecido">>,
          <<"Vit B6 / Piridoxina (mg)", "No establecido">>,
          <<"Vit B12 / Cianocobalamina (µg)", "No establecido">>,
          <<"Vit C / Ac. Ascórbico (mg)", "No establecido">>,
          <<"Vitamina D (µg)", "No establecido">>,
          <<"Vitamina E /d-tocoferol (mg)", "No establecido">>,
          <<"Vitamina K (µg)", "No establecido">>,
          <<"Colina (mg)", "No establecido">> >> >>,
       <<"Panamá", <<
          <<"Vitamina A / Retinol (µg)", "No establecido">>,
          <<"Ácido Fólico (µg)", "No establecido">>,
          <<"Beta Caroteno (mg)", "No establecido">>,
          <<"Biotina (µg)", "No establecido">>,
          <<"Vit B1 / Tiamina (mg)", "No establecido">>,
          <<"Vit B2 / Riboflavina (mg)", "No establecido">>,
          <<"Vit B3 / Niacina (mg)", "No establecido">>,
          <<"Vit B5 / Ac. Pantoténico (mg)", "No establecido">>,
          <<"Vit B6 / Piridoxina (mg)", "No establecido">>,
          <<"Vit B12 / Cianocobalamina (µg)", "No establecido">>,
          <<"Vit C / Ac. Ascórbico (mg)", "No establecido">>,
          <<"Vitamina D (µg)", "No establecido">>,
          <<"Vitamina E /d-tocoferol (mg)", "No establecido">>,
          <<"Vitamina K (µg)", "No establecido">>,
          <<"Colina (mg)", "No establecido">> >> >>,
       <<"Perú", <<
          <<"Vitamina A / Retinol (µg)", "No establecidos">>,
          <<"Ácido Fólico (µg)", "No establecidos">>,
          <<"Beta Caroteno (mg)", "No establecidos">>,
          <<"Biotina (µg)", "No establecidos">>,
          <<"Vit B1 / Tiamina (mg)", "No establecidos">>,
          <<"Vit B2 / Riboflavina (mg)", "No establecidos">>,
          <<"Vit B3 / Niacina (mg)", "No establecidos">>,
          <<"Vit B5 / Ac. Pantoténico (mg)", "No establecidos">>,
          <<"Vit B6 / Piridoxina (mg)", "No establecidos">>,
          <<"Vit B12 / Cianocobalamina (µg)", "No establecidos">>,
          <<"Vit C / Ac. Ascórbico (mg)", "No establecidos">>,
          <<"Vitamina D (µg)", "No establecidos">>,
          <<"Vitamina E /d-tocoferol (mg)", "No establecidos">>,
          <<"Vitamina K (µg)", "No establecidos">>,
          <<"Colina (mg)", "No establecidos">> >> >>,
       <<"El Salvador", <<
          <<"Vitamina A / Retinol (µg)", "No establecido">>,
          <<"Ácido Fólico (µg)", "No establecido">>,
          <<"Beta Caroteno (mg)", "No establecido">>,
          <<"Biotina (µg)", "No establecido">>,
          <<"Vit B1 / Tiamina (mg)", "No establecido">>,
          <<"Vit B2 / Riboflavina (mg)", "No establecido">>,
          <<"Vit B3 / Niacina (mg)", "No establecido">>,
          <<"Vit B5 / Ac. Pantoténico (mg)", "No establecido">>,
          <<"Vit B6 / Piridoxina (mg)", "No establecido">>,
          <<"Vit B12 / Cianocobalamina (µg)", "No establecido">>,
          <<"Vit C / Ac. Ascórbico (mg)", "No establecido">>,
          <<"Vitamina D (µg)", "No establecido">>,
          <<"Vitamina E /d-tocoferol (mg)", "No establecido">>,
          <<"Vitamina K (µg)", "No establecido">>,
          <<"Colina (mg)", "No establecido">> >> >>
    >>

minerales_raw ==
    <<
       <<"Argentina", <<
          <<"Magnesio (mg)", "78 - 400 [8]">>,
          <<"Cobre (mg)", "0,27 - 9 [3]">>,
          <<"Hierro (mg)", "4,2 - 60 [7]">>,
          <<"Calcio (mg)", "300 - 1500 [2]">>,
          <<"Cromo (µg)", "10,5 - 200 [4]">>,
          <<"Flúor (mg)", "No Establecidos [5]">>,
          <<"Fósforo (mg)", "210 - 1500 [6]">>,
          <<"Manganeso (mg)", "0,69 - 10 [9]">>,
          <<"Molibdeno (µg)", "13,5 - 350 [10]">>,
          <<"Selenio (µg)", "10,2 - 200 [11]">>,
          <<"Yodo (µg)", "39 - 500 [12]">>,
          <<"Zinc (mg)", "2,1 - 30 [13]">>,
          <<"Boro (mg)", "No establecido - 6 [1]">>,
          <<"Níquel (mg)", "No estblecido">>,
          <<"Potasio (mg)", "No establecido">>,
          <<"Silicio (mg)", "No establecidos">>,
          <<"Sodio (mg)", "No establecido">>,
          <<"Vanadio (mg)", "No establecido">> >> >>,
       <<"Brasil", <<
          <<"Magnesio (mg)", "63 - 350 [20]">>,
          <<"Cobre (mg)", "135 - 8975,52 [16]">>,
          <<"Hierro (mg)", "2,7 - 34,31 [19]">>,
          <<"Calcio (mg)", "180 - 1534,67 [15]">>,
          <<"Cromo (µg)", "5,25 - 250 [17]">>,
          <<"Flúor (mg)", "No establecidos">>,
          <<"Fósforo (mg)", "105 - 2083,89 [18]">>,
          <<"Manganeso (mg)", "0,35 - 1,66 [21]">>,
          <<"Molibdeno (µg)", "6,75 - 1955 [22]">>,
          <<"Selenio (µg)", "8,25 - 319,75 [24]">>,
          <<"Yodo (µg)", "22,5 - 919,02 [27]">>,
          <<"Zinc (mg)", "1,65 - 29,59 [28]">>,
          <<"Boro (mg)", "No establecido - 8866 [14]">>,
          <<"Níquel (mg)", "No establecido">>,
          <<"Potasio (mg)", "No establecido [23]">>,
          <<"Silicio (mg)", "No establecido [25]">>,
          <<"Sodio (mg)", "None [26]">>,
          <<"Vanadio (mg)", "No establecido">> >> >>,
       <<"Chile", <<
          <<"Magnesio (mg)", "75 - 400">>,
          <<"Cobre (mg)", "0,5 - 3,3">>,
          <<"Hierro (mg)", "3,5 - 25">>,
          <<"Calcio (mg)", "400 - 1600">>,
          <<"Cromo (µg)", "17,5 - 200">>,
          <<"Flúor (mg)", "No establecido">>,
          <<"Fósforo (mg)", "400 - 1600">>,
          <<"Manganeso (mg)", "0,5 - 6">>,
          <<"Molibdeno (µg)", "25 - 600">>,
          <<"Selenio (µg)", "17,5 - 200">>,
          <<"Yodo (µg)", "30 - 150">>,
          <<"Zinc (mg)", "3,8 - 20">>,
          <<"Boro (mg)", "No establecido">>,
          <<"Níquel (mg)", "No establecido">>,
          <<"Potasio (mg)", "No establecido - 3715 [29]">>,
          <<"Silicio (mg)", "No establecido">>,
          <<"Sodio (mg)", "No establecido - 1610 [30]">>,
          <<"Vanadio (mg)", "No establecido">> >> >>,
       <<"Colombia", <<
          <<"Magnesio (mg)", "No establecido - 350 [33]">>,
          <<"Cobre (mg)", "No establecido - 10">>,
          <<"Hierro (mg)", "No establecido - 45">>,
          <<"Calcio (mg)", "No establecido - 1500 [31]">>,
          <<"Cromo (µg)", "No establecido - 1000">>,
          <<"Flúor (mg)", "No establecido - 10">>,
          <<"Fósforo (mg)", "No establecido - 250 [32]">>,
          <<"Manganeso (mg)", "No establecido - 11">>,
          <<"Molibdeno (µg)", "No establecido - 2000">>,
          <<"Selenio (µg)", "No establecido - 400">>,
          <<"Yodo (µg)", "No establecido - 1100">>,
          <<"Zinc (mg)", "No establecido - 40">>,
          <<"Boro (mg)", "No establecido - 6">>,
          <<"Níquel (mg)", "No establecido - 0,72">>,
          <<"Potasio (mg)", "No establecido - 3700 [34]">>,
          <<"Silicio (mg)", "No establecido - 700">>,
          <<"Sodio (mg)", "No establecido - 2300">>,
          <<"Vanadio (mg)", "No establecido - 0,05">> >> >>,
       <<"Costa Rica", <<
          <<"Magnesio (mg)", "80 - 400">>,
          <<"Cobre (mg)", "0,4 - 10 [35]">>,
          <<"Hierro (mg)", "3,6 - 60">>,
          <<"Calcio (mg)", "200 - 2500">>,
          <<"Cromo (µg)", "24 - No establecido">>,
          <<"Flúor (mg)", "No establecido - 10">>,
          <<"Fósforo (mg)", "200 - 4000">>,
          <<"Manganeso (mg)", "0,4 - 10">>,
          <<"Molibdeno (µg)", "15 - 2000">>,
          <<"Selenio (µg)", "14 - 400">>,
          <<"Yodo (µg)", "30 - 1100">>,
          <<"Zinc (mg)", "mar-40">>,
          <<"Boro (mg)", "No establecido - 20">>,
          <<"Níquel (mg)", "None">>,
          <<"Potasio (mg)", "None">>,
          <<"Silicio (mg)", "None">>,
          <<"Sodio (mg)", "None">>,
          <<"Vanadio (mg)", "None">> >> >>,
       <<"República Dominicana", <<
          <<"Magnesio (mg)", "No establecido">>,
          <<"Cobre (mg)", "No establecido">>,
          <<"Hierro (mg)", "No establecido">>,
          <<"Calcio (mg)", "No establecido">>,
          <<"Cromo (µg)", "No establecido">>,
          <<"Flúor (mg)", "No establecido">>,
          <<"Fósforo (mg)", "No establecido">>,
          <<"Manganeso (mg)", "No establecido">>,
          <<"Molibdeno (µg)", "No establecido">>,
          <<"Selenio (µg)", "No establecido">>,
          <<"Yodo (µg)", "No establecido">>,
          <<"Zinc (mg)", "No establecido">>,
          <<"Boro (mg)", "No establecido">>,
          <<"Níquel (mg)", "No establecido">>,
          <<"Potasio (mg)", "No establecido">>,
          <<"Silicio (mg)", "No establecido">>,
          <<"Sodio (mg)", "No establecido">>,
          <<"Vanadio (mg)", "No establecido">> >> >>,
       <<"Ecuador", <<
          <<"Magnesio (mg)", "45 - 350 [43]">>,
          <<"Cobre (mg)", "0,3 - 10 [38]">>,
          <<"Hierro (mg)", "2,1 - No establecido [42]">>,
          <<"Calcio (mg)", "120 - 2500 [37]">>,
          <<"Cromo (µg)", "18 - No establecido [39]">>,
          <<"Flúor (mg)", "No establecido - 10 [40]">>,
          <<"Fósforo (mg)", "150 - 4000 [41]">>,
          <<"Manganeso (mg)", "0,3 - 11 [44]">>,
          <<"Molibdeno (µg)", "11,25 - 2000 [45]">>,
          <<"Selenio (µg)", "10,5 - 400 [48]">>,
          <<"Yodo (µg)", "22,5 - 1100 [52]">>,
          <<"Zinc (mg)", "2,25 - 40 [53]">>,
          <<"Boro (mg)", "No establecido - 20 [36]">>,
          <<"Níquel (mg)", "No establecido - 1,0 [46]">>,
          <<"Potasio (mg)", "525 - No establecido [47]">>,
          <<"Silicio (mg)", "No establecido [49]">>,
          <<"Sodio (mg)", "No establecido - 2300 [50]">>,
          <<"Vanadio (mg)", "No establecido - 1,8 [51]">> >> >>,
       <<"Guatemala", <<
          <<"Magnesio (mg)", "AL:70-250 / PF:62-400 [61]">>,
          <<"Cobre (mg)", "AL:0,32-5 / PF: 0,9-10 [56]">>,
          <<"Hierro (mg)", "AL:1,4-10,5 / PF:3,6-45 [60]">>,
          <<"Calcio (mg)", "AL:200-2500 /PF:200-2500 [55]">>,
          <<"Cromo (µg)", "AL: ND / PF: 7-1000 [57]">>,
          <<"Flúor (mg)", "AL:0,68-7 / PF:2-10 [58]">>,
          <<"Fósforo (mg)", "AL:110-825 / PF:140-4000 [59]">>,
          <<"Manganeso (mg)", "AL:0,6-4,5 / PF:0,6-10 [62]">>,
          <<"Molibdeno (µg)", "AL:13-600 / PF:9-2000 [63]">>,
          <<"Selenio (µg)", "AL:14-300 / PF:12-400 [66]">>,
          <<"Yodo (µg)", "AL:30-600 / PF:30-1100 [70]">>,
          <<"Zinc (mg)", "AL:2,34-25 / PF:2,6-40 [71]">>,
          <<"Boro (mg)", "AL:ND / PF:NE-20 [54]">>,
          <<"Níquel (mg)", "AL:NE / PF: NE-1 [64]">>,
          <<"Potasio (mg)", "AL:700-5250/PF:0,94-NE [65]">>,
          <<"Silicio (mg)", "AL:ND / PF:ND [67]">>,
          <<"Sodio (mg)", "AL:400-3000 / PF:300-NE [68]">>,
          <<"Vanadio (mg)", "AL: ND / PF:ND [69]">> >> >>,
       <<"Honduras", <<
          <<"Magnesio (mg)", "No establecidos">>,
          <<"Cobre (mg)", "No establecidos">>,
          <<"Hierro (mg)", "No establecidos">>,
          <<"Calcio (mg)", "No establecidos">>,
          <<"Cromo (µg)", "No establecidos">>,
          <<"Flúor (mg)", "No establecidos">>,
          <<"Fósforo (mg)", "No establecidos">>,
          <<"Manganeso (mg)", "No establecidos">>,
          <<"Molibdeno (µg)", "No establecidos">>,
          <<"Selenio (µg)", "No establecidos">>,
          <<"Yodo (µg)", "No establecidos">>,
          <<"Zinc (mg)", "No establecidos">>,
          <<"Boro (mg)", "No establecidos">>,
          <<"Níquel (mg)", "No establecidos">>,
          <<"Potasio (mg)", "No establecidos">>,
          <<"Silicio (mg)", "No establecidos">>,
          <<"Sodio (mg)", "No establecidos">>,
          <<"Vanadio (mg)", "No establecidos">> >> >>,
       <<"México", <<
          <<"Magnesio (mg)", "No establecido - 500">>,
          <<"Cobre (mg)", "No establecido - 3">>,
          <<"Hierro (mg)", "No establecido - 20">>,
          <<"Calcio (mg)", "No establecido - 1200">>,
          <<"Cromo (µg)", "No establecido - 200">>,
          <<"Flúor (mg)", "No establecido - 1">>,
          <<"Fósforo (mg)", "No establecido - 1200">>,
          <<"Manganeso (mg)", "No establecido - 7,5">>,
          <<"Molibdeno (µg)", "No establecido - 250">>,
          <<"Selenio (µg)", "No establecido - 100">>,
          <<"Yodo (µg)", "No establecido - 200">>,
          <<"Zinc (mg)", "No establecido - 20 [72]">>,
          <<"Boro (mg)", "No establecidos">>,
          <<"Níquel (mg)", "No establecidos">>,
          <<"Potasio (mg)", "No establecidos">>,
          <<"Silicio (mg)", "No establecidos">>,
          <<"Sodio (mg)", "No establecidos">>,
          <<"Vanadio (mg)", "No establecidos">> >> >>,
       <<"Nicaragua", <<
          <<"Magnesio (mg)", "No establecido">>,
          <<"Cobre (mg)", "No establecido">>,
          <<"Hierro (mg)", "No establecido">>,
          <<"Calcio (mg)", "No establecido">>,
          <<"Cromo (µg)", "No establecido">>,
          <<"Flúor (mg)", "No establecido">>,
          <<"Fósforo (mg)", "No establecido">>,
          <<"Manganeso (mg)", "No establecido">>,
          <<"Molibdeno (µg)", "No establecido">>,
          <<"Selenio (µg)", "No establecido">>,
          <<"Yodo (µg)", "No establecido">>,
          <<"Zinc (mg)", "No establecido">>,
          <<"Boro (mg)", "No establecido">>,
          <<"Níquel (mg)", "No establecido">>,
          <<"Potasio (mg)", "No establecido">>,
          <<"Silicio (mg)", "No establecido">>,
          <<"Sodio (mg)", "No establecido">>,
          <<"Vanadio (mg)", "No establecido">> >> >>,
       <<"Panamá", <<
          <<"Magnesio (mg)", "No establecido">>,
          <<"Cobre (mg)", "No establecido">>,
          <<"Hierro (mg)", "No establecido">>,
          <<"Calcio (mg)", "No establecido">>,
          <<"Cromo (µg)", "No establecido">>,
          <<"Flúor (mg)", "No establecido">>,
          <<"Fósforo (mg)", "No establecido">>,
          <<"Manganeso (mg)", "No establecido">>,
          <<"Molibdeno (µg)", "No establecido">>,
          <<"Selenio (µg)", "No establecido">>,
          <<"Yodo (µg)", "No establecido">>,
          <<"Zinc (mg)", "No establecido">>,
          <<"Boro (mg)", "No establecido">>,
          <<"Níquel (mg)", "No establecido">>,
          <<"Potasio (mg)", "No establecido">>,
          <<"Silicio (mg)", "No establecido">>,
          <<"Sodio (mg)", "No establecido">>,
          <<"Vanadio (mg)", "No establecido">> >> >>,
       <<"Perú", <<
          <<"Magnesio (mg)", "No establecidos">>,
          <<"Cobre (mg)", "No establecidos">>,
          <<"Hierro (mg)", "No establecidos">>,
          <<"Calcio (mg)", "No establecidos">>,
          <<"Cromo (µg)", "No establecidos">>,
          <<"Flúor (mg)", "No establecidos">>,
          <<"Fósforo (mg)", "No establecidos">>,
          <<"Manganeso (mg)", "No establecidos">>,
          <<"Molibdeno (µg)", "No establecidos">>,
          <<"Selenio (µg)", "No establecidos">>,
          <<"Yodo (µg)", "No establecidos">>,
          <<"Zinc (mg)", "No establecidos">>,
          <<"Boro (mg)", "No establecidos">>,
          <<"Níquel (mg)", "No establecidos">>,
          <<"Potasio (mg)", "No establecidos">>,
          <<"Silicio (mg)", "No establecidos">>,
          <<"Sodio (mg)", "No establecidos">>,
          <<"Vanadio (mg)", "No establecidos">> >> >>,
       <<"El Salvador", <<
          <<"Magnesio (mg)", "No establecido">>,
          <<"Cobre (mg)", "No establecido">>,
          <<"Hierro (mg)", "No establecido">>,
          <<"Calcio (mg)", "No establecido">>,
          <<"Cromo (µg)", "No establecido">>,
          <<"Flúor (mg)", "No establecido">>,
          <<"Fósforo (mg)", "No establecido">>,
          <<"Manganeso (mg)", "No establecido">>,
          <<"Molibdeno (µg)", "No establecido">>,
          <<"Selenio (µg)", "No establecido">>,
          <<"Yodo (µg)", "No establecido">>,
          <<"Zinc (mg)", "No establecido">>,
          <<"Boro (mg)", "No establecido">>,
          <<"Níquel (mg)", "No establecido">>,
          <<"Potasio (mg)", "No establecido">>,
          <<"Silicio (mg)", "No establecido">>,
          <<"Sodio (mg)", "No establecido">>,
          <<"Vanadio (mg)", "No establecido">> >> >>
    >>

-----------------------------------------------------------------------------
(* normalizar_datos_suplementos *)

RECURSIVE Aplanar(_, _)
\* the (pais, label, value) entries of a table in the order the nested loops visit them
Aplanar(tabla, k) ==
    IF k > Len(tabla) THEN <<>>
    ELSE [j \in 1..Len(tabla[k][2]) |->
             [pais |-> tabla[k][1], etiqueta |-> tabla[k][2][j][1],
              valor_original |-> tabla[k][2][j][2]]]
         \o Aplanar(tabla, k + 1)

EntradasVitaminas == Aplanar(vitaminas_raw, 1)

EntradasMinerales == Aplanar(minerales_raw, 1)

Grupo1(grupos) == IF grupos = <<>> THEN "unidad" ELSE grupos[1]

\* unidad as the whole parenthesized group, parentheses included
UnidadConParentesis(etiqueta) ==
    IF Contains(etiqueta, "(") THEN Desde(etiqueta, Find(etiqueta, "(")) ELSE "unidad"

\* unidad: group 1 of the first parenthesized group of the label, or 'unidad'
Unidad(etiqueta) == Grupo1(FindAllGrupos(etiqueta, "(", ")", 0))

\* nombre_limpio
NombreLimpio(etiqueta) == Strip(SubGrupos(etiqueta, "(", ")", 0))

RECURSIVE Join(_, _)
\* sep.join(lista)
Join(sep, lista) ==
    IF lista = <<>> THEN ""
    ELSE IF Len(lista) = 1 THEN lista[1]
    ELSE lista[1] \o sep \o Join(sep, Tail(lista))

\* ','.join(referencias) whatever the list
CampoReferenciasSiempre(referencias) == Str(Join(",", referencias))

\* ','.join(referencias) if referencias else None
CampoReferencias(referencias) ==
    IF referencias # <<>> THEN Str(Join(",", referencias)) ELSE None

EstablecidoSegunTexto(minimo, maximo, valor_limpio) ==
    ~Contains(Lower(valor_limpio), "no establecido")

\* minimo is not None or maximo is not None
Establecido(minimo, maximo, valor_limpio) == minimo # None \/ maximo # None

Registro(e, tipo, minimo, maximo, categoria, limpio) ==
    [pais |-> e.pais,
     ingrediente |-> NombreLimpio(e.etiqueta),
     tipo |-> tipo,
     unidad |-> Unidad(e.etiqueta),
     minimo |-> minimo,
     maximo |-> maximo,
     establecido |-> Establecido(minimo, maximo, limpio[1]),
     categoria_regulacion |-> categoria,
     referencias |-> CampoReferencias(limpio[2]),
     valor_original |-> e.valor_original]

\* the standard branch appending only the entries that have a bound
AppendSoloEstablecidos(e, tipo, limpio, r) ==
    IF r.t # "return" THEN r
    ELSE IF r.v[1] = None /\ r.v[2] = None THEN Return(<<>>)
    ELSE Return(<<Registro(e, tipo, r.v[1], r.v[2], "Estándar", limpio)>>)

\* datos_normalizados.append({...}) of the standard branch, r the parsed range
AppendEstandar(e, tipo, limpio, r) ==
    IF r.t # "return" THEN r
    ELSE Return(<<Registro(e, tipo, r.v[1], r.v[2], "Estándar", limpio)>>)

\* the single record of the standard branch, or the exception raised
RegistroEstandar(e, tipo, limpio) ==
    AppendEstandar(e, tipo, limpio, ParsearRango(Str(limpio[1])))

\* the condition of the Guatemala branch without its test of the country
EsCompuestoCualquierPais(pais, valor_limpio) ==
    \/ Contains(valor_limpio, "AL:")
    \/ Contains(valor_limpio, "PF:")
    \/ Contains(valor_limpio, "UL:")

\* the condition of the Guatemala branch
EsCompuesto(pais, valor_limpio) ==
    /\ pais = "Guatemala"
    /\ \/ Contains(valor_limpio, "AL:")
       \/ Contains(valor_limpio, "PF:")
       \/ Contains(valor_limpio, "UL:")

\* the appends of the Guatemala branch with the category of the other branch
AppendCategoriasEstandar(e, limpio, g) ==
    IF g.t # "return" THEN g
    ELSE Return([k \in 1..Len(g.v) |->
                    Registro(e, "Vitamina", g.v[k].minimo, g.v[k].maximo, "Estándar", limpio)])

\* the appends of the Guatemala branch, g the decomposed categories
AppendCategorias(e, limpio, g) ==
    IF g.t # "return" THEN g
    ELSE Return([k \in 1..Len(g.v) |->
                    Registro(e, "Vitamina", g.v[k].minimo, g.v[k].maximo,
                             g.v[k].categoria, limpio)])

\* the body of the vitamin loop after extraer_referencias
RegistrosDeLimpio(e, limpio) ==
    IF EsCompuesto(e.pais, limpio[1])
    THEN AppendCategorias(e, limpio, ParsearGuatemala(Str(limpio[1])))
    ELSE RegistroEstandar(e, "Vitamina", limpio)

\* the records one iteration of the vitamin loop appends
RegistrosVitamina(e) == RegistrosDeLimpio(e, ExtraerReferencias(Str(e.valor_original)))

\* the record one iteration of the mineral loop appends
RegistrosMineral(e) ==
    RegistroEstandar(e, "Mineral", ExtraerReferencias(Str(e.valor_original)))

\* one iteration that puts its records before those of the earlier iterations
IteracionAlFrente(fase, entradas, registros, siguiente) ==
    /\ pos <= Len(entradas)
    /\ IF registros.t # "return"
       THEN /\ pc' = "lanza"
            /\ UNCHANGED <<pos, datos_normalizados>>
       ELSE /\ datos_normalizados' = registros.v \o datos_normalizados
            /\ pc' = IF pos = Len(entradas) THEN siguiente ELSE fase
            /\ pos' = IF pos = Len(entradas) THEN 1 ELSE pos + 1
    /\ UNCHANGED <<valor, retorno>>

\* the appends of one iteration, then the next entry or the next phase
Iteracion(fase, entradas, registros, siguiente) ==
    /\ pos <= Len(entradas)
    /\ IF registros.t # "return"
       THEN /\ pc' = "lanza"
            /\ UNCHANGED <<pos, datos_normalizados>>
       ELSE /\ datos_normalizados' = datos_normalizados \o registros.v
            /\ pc' = IF pos = Len(entradas) THEN siguiente ELSE fase
            /\ pos' = IF pos = Len(entradas) THEN 1 ELSE pos + 1
    /\ UNCHANGED <<valor, retorno>>

\* one iteration of "for pais, vitaminas ... for vitamina, valor_original"
ProcesarVitamina ==
    /\ pc = "vitaminas"
    /\ Iteracion("vitaminas", EntradasVitaminas,
                 RegistrosVitamina(EntradasVitaminas[pos]), "minerales")

\* one iteration of "for pais, minerales ... for mineral, valor_original"
ProcesarMineral ==
    /\ pc = "minerales"
    /\ Iteracion("minerales", EntradasMinerales,
                 RegistrosMineral(EntradasMinerales[pos]), "dataframe")

\* df = pd.DataFrame(datos_normalizados); return df
CrearDataFrame ==
    /\ pc = "dataframe"
    /\ pc' = "fin"
    /\ retorno' = Return(datos_normalizados)
    /\ UNCHANGED <<valor, pos, datos_normalizados>>

Init ==
    /\ pc = "vitaminas"
    /\ valor = None
    /\ retorno = Pending
    /\ pos = 1
    /\ datos_normalizados = <<>>

Next == ProcesarVitamina \/ ProcesarMineral \/ CrearDataFrame

Spec == Init /\ [][Next]_vars

-----------------------------------------------------------------------------
(* Calls of parsear_rango on its own: the argument is drawn from every     *)
(* string over Alfabeto up to MaxLen characters, from two sides joined by  *)
(* a separator, from the special cases in context, and from every value    *)
(* the driver passes to it.                                                 *)

MaxLen == 5

Alfabeto == {"1", ",", "-", " ", "x"}

RECURSIVE Cadenas(_)
Cadenas(n) ==
    IF n = 0 THEN {""}
    ELSE Cadenas(n - 1) \cup {c \o a : c \in Cadenas(n - 1), a \in Alfabeto}

\* sides that are numbers, with the float each one is
LadosNumero ==
    { <<"3000", Fin(FALSE, 3, 3)>>, <<"180", Fin(FALSE, 18, 1)>>,
      <<"0,3", Fin(FALSE, 3, 0 - 1)>>, <<"0,8", Fin(FALSE, 8, 0 - 1)>>,
      <<"6", Fin(FALSE, 6, 0)>>, <<"45", Fin(FALSE, 45, 0)>>,
      <<"17.96", Fin(FALSE, 1796, 0 - 2)>>, <<"0", Fin(FALSE, 0, 0)>>,
      <<"1e5", Fin(FALSE, 1, 5)>>, <<"1_0", Fin(FALSE, 1, 1)>>,
      <<"1e16", Fin(FALSE, 1, 16)>>,
      <<"inf", Inf(FALSE)>>, <<"nan", NaN>> }

\* sides that are no number: the sentinel, empty, unparseable
LadosNulos ==
    {"No establecido", "No establecidos", "NO ESTABLECIDO", "no establecido", "",
     "ND", "NE", "None", "1,5,2", "x"}

\* numbers that hold a hyphen of their own
LadosConGuion ==
    { <<"-5", Fin(TRUE, 5, 0)>>, <<"1e-5", Fin(FALSE, 1, 0 - 5)>>, <<"-0", Fin(TRUE, 0, 0)>> }

Lados == {n[1] : n \in LadosNumero \cup LadosConGuion} \cup LadosNulos

Separadores == {" - ", "-", "  -  "}

Margenes == {"", " "}

DosLados == {m \o a \o sep \o b \o m : a \in Lados, b \in Lados, sep \in Separadores,
                                        m \in Margenes}

UnLado == {m \o a \o m : a \in Lados, m \in Margenes}

TresLados == {"1 - 2 - 3", "1-2-3", "1 - 2-3", "1-2 - 3", "-1-2", "1--2", "-1e-5", "-1,5e-3"}

RECURSIVE Upper(_)
\* str.upper()
Upper(s) ==
    IF s = "" THEN ""
    ELSE (IF \E u \in DOMAIN UpperToLower : UpperToLower[u] = Ch(s, 1)
          THEN CHOOSE u \in DOMAIN UpperToLower : UpperToLower[u] = Ch(s, 1)
          ELSE Ch(s, 1))
         \o Upper(Desde(s, 2))

\* a special case, a token outside the table, in either letter case
Tokens == {casos_especiales[k][1] : k \in 1..Len(casos_especiales)} \cup {"jun-15", "1-ene"}

Prefijos == {"", " ", "x", "AL: ", "No establecido - "}

Sufijos == {"", " ", "0", " - 9", "x"}

EnContexto == {pre \o t \o suf : pre \in Prefijos, suf \in Sufijos,
                                 t \in Tokens \cup {Upper(t) : t \in Tokens}}

Centinelas ==
    {m \o c \o n : m \in {"", " ", "\t "}, n \in {"", " ", " \n"},
                   c \in {"No establecido", "No establecidos", "no establecido",
                          "NO ESTABLECIDOS", "No Establecidos", "nO eSTABLECIDO", ""}}

\* valor_limpio of every entry of the tables
DeTablas ==
    {ExtraerReferencias(Str(EntradasVitaminas[k].valor_original))[1] :
        k \in 1..Len(EntradasVitaminas)}
    \cup {ExtraerReferencias(Str(EntradasMinerales[k].valor_original))[1] :
             k \in 1..Len(EntradasMinerales)}

EntradasRango ==
    {None} \cup {Str(c) : c \in Cadenas(MaxLen) \cup DosLados \cup UnLado \cup TresLados
                                \cup EnContexto \cup Centinelas \cup DeTablas}

InitRango ==
    /\ pc = "llamar"
    /\ valor \in EntradasRango
    /\ retorno = Pending
    /\ pos = 0
    /\ datos_normalizados = <<>>

\* the outcome of a call: the value returned, or the exception raised
Termina(r) ==
    /\ retorno' = r
    /\ pc' = IF r.t = "return" THEN "retorna" ELSE "lanza"
    /\ UNCHANGED <<valor, pos, datos_normalizados>>

\* retorno = parsear_rango(valor)
LlamarParsearRango ==
    /\ pc = "llamar"
    /\ Termina(ParsearRango(valor))

NextRango == LlamarParsearRango

SpecRango == InitRango /\ [][NextRango]_vars

-----------------------------------------------------------------------------
(* Properties of normalizar_datos_suplementos, over the runs of Spec *)

Emitidos == {datos_normalizados[i] : i \in 1..Len(datos_normalizados)}

(* C1: every record emitted, by the standard vitamin branch, the Guatemala  *)
(* composite branch and the mineral branch alike, has                       *)
(* establecido = (minimo is not null or maximo is not null).                *)
C1_EstablecidoSegunLimites ==
    \A r \in Emitidos : r.establecido = (r.minimo # None \/ r.maximo # None)

C1_Witness ==
    /\ pc = "fin"
    /\ \E r \in Emitidos : r.tipo = "Vitamina" /\ r.categoria_regulacion = "Estándar"
                             /\ ~r.establecido /\ r.minimo = None /\ r.maximo = None
    /\ \E r \in Emitidos : r.tipo = "Vitamina" /\ r.categoria_regulacion # "Estándar"
                             /\ r.establecido
    /\ \E r \in Emitidos : r.tipo = "Mineral" /\ r.establecido /\ r.minimo = r.maximo
                             /\ Contains(Lower(r.valor_original), "no establecido")

-----------------------------------------------------------------------------
(* Properties of parsear_rango, over the calls of SpecRango *)

Par(a, b) == Return(<<a, b>>)

ConGuion == LadosNumero \cup LadosConGuion

Acolchados == {" - ", "  -  "}

\* unparseable sides that hold no sentinel text
Basura == {"ND", "NE", "None", "1,5,2", "x"}

\* the inputs the first line of parsear_rango answers by itself
Inmediatos == {"", "No establecidos", "No establecido"}

\* worked cases <<valor, return>>: one side null, the other the number n
UnLadoEsperado ==
    {<<Str(m \o z \o sep \o n[1] \o m), Par(n[2], n[2])>> :
        n \in ConGuion, z \in LadosNulos \ {""}, sep \in Acolchados, m \in Margenes}
    \cup {<<Str(m \o n[1] \o sep \o z \o m), Par(n[2], n[2])>> :
        n \in ConGuion, z \in LadosNulos \ {""}, sep \in Acolchados, m \in Margenes}
    \cup {<<Str(m \o z \o "-" \o n[1] \o m), Par(n[2], n[2])>> :
        n \in LadosNumero, z \in Basura \cup {""}, m \in Margenes}
    \cup {<<Str(m \o n[1] \o "-" \o z \o m), Par(n[2], n[2])>> :
        n \in LadosNumero, z \in Basura \cup {""}, m \in Margenes}

UnLadoEntradas == {c[1] : c \in UnLadoEsperado}

DosLadosEsperado ==
    {<<Str(m \o a[1] \o sep \o b[1] \o m), Par(a[2], b[2])>> :
        a \in ConGuion, b \in ConGuion, sep \in Acolchados, m \in Margenes}
    \cup {<<Str(m \o y \o sep \o z \o m), Par(None, None)>> :
        y \in LadosNulos \ {""}, z \in LadosNulos \ {""}, sep \in Acolchados, m \in Margenes}

DosLadosEntradas == {c[1] : c \in DosLadosEsperado}

(* C3: two sides of a padded hyphen that both parse as numbers a and b give *)
(* (a, b), the decimal comma read as a point; two null sides give           *)
(* (null, null).                                                            *)
C3_DosLadosSinCambio ==
    pc # "llamar" =>
      /\ valor \in DosLadosEntradas => <<valor, retorno>> \in DosLadosEsperado
      /\ (valor # None /\ valor.s \notin Inmediatos)
           => LET v == ValorCorregido(valor.s)
                  partes == Split(v, " - ")
                  a == ProcesarLado(Strip(partes[1]))
                  b == ProcesarLado(Strip(partes[2]))
              IN  (Contains(v, " - ") /\ Len(partes) = 2 /\ (a = None <=> b = None))
                     => retorno = Par(a, b)

C3_Witness ==
    /\ pc = "retorna"
    /\ valor = Str("180 - 3000")
    /\ retorno = Par(Fin(FALSE, 18, 1), Fin(FALSE, 3, 3))

\* the bare hyphen splits v in exactly two sides and no padded hyphen is there
DosLadosSinEspacios(v) == ~Contains(v, " - ") /\ Len(Split(v, "-")) = 2

SinEspaciosEsperado ==
    {<<Str(m \o a[1] \o "-" \o b[1] \o m), Par(a[2], b[2])>> :
        a \in LadosNumero, b \in LadosNumero, m \in Margenes}
    \cup {<<Str(m \o z \o "-" \o n[1] \o m), Par(n[2], n[2])>> :
        n \in LadosNumero, z \in Basura, m \in Margenes}
    \cup {<<Str(m \o n[1] \o "-" \o z \o m), Par(n[2], n[2])>> :
        n \in LadosNumero, z \in Basura, m \in Margenes}

SinEspaciosEntradas == {c[1] : c \in SinEspaciosEsperado}

C5_CentinelaNulo ==
    (pc # "llamar" /\ (valor = None \/ valor.s \in Centinelas))
       => retorno = Par(None, None)

C5_Witness ==
    /\ pc = "retorna"
    /\ valor = Str("\t NO ESTABLECIDOS \n")
    /\ retorno = Par(None, None)

\* the pair each special case stands for
CasosEsperados ==
    << Par(Fin(FALSE, 5, 0), Fin(FALSE, 15, 0)), Par(Fin(FALSE, 5, 0), Fin(FALSE, 25, 0)),
       Par(Fin(FALSE, 1, 0), Fin(FALSE, 5, 1)),  Par(Fin(FALSE, 2, 0), Fin(FALSE, 2, 1)),
       Par(Fin(FALSE, 2, 0), Fin(FALSE, 6, 1)),  Par(Fin(FALSE, 4, 0), Fin(FALSE, 35, 0)),
       Par(Fin(FALSE, 12, 0), Fin(FALSE, 0, 0)), Par(Fin(FALSE, 1, 0), Fin(FALSE, 12, 0)),
       Par(Fin(FALSE, 3, 0), Fin(FALSE, 4, 1)) >>

\* a token of casos_especiales as the table writes it and in capitals
Variantes(k) == {casos_especiales[k][1], Upper(casos_especiales[k][1])}

\* worked cases <<valor, return>>: a token alone
TokenEsperado ==
    UNION {{<<Str(m \o t \o n), CasosEsperados[k]>> :
               t \in Variantes(k), m \in Margenes, n \in Margenes} :
           k \in 1..Len(casos_especiales)}

TokenEntradas == {c[1] : c \in TokenEsperado}

\* <<valor, the text the special cases leave>>: a token inside other text
CorreccionEsperada ==
    UNION {{<<Str(pre \o t \o suf),
              Strip(Lower(pre) \o casos_especiales[k][2] \o Lower(suf))>> :
               t \in Variantes(k), pre \in Prefijos, suf \in Sufijos} :
           k \in 1..Len(casos_especiales)}

CorreccionEntradas == {c[1] : c \in CorreccionEsperada}

(* C6: every token of the correction table, matched in any letter case and *)
(* as a substring, is replaced by its range before any splitting; a token   *)
(* alone gives its intended pair ('may-15' gives (5, 15)).                  *)
C6_CasosEspeciales ==
    pc # "llamar" =>
      /\ valor \in TokenEntradas => <<valor, retorno>> \in TokenEsperado
      /\ valor \in CorreccionEntradas
            => /\ <<valor, ValorCorregido(valor.s)>> \in CorreccionEsperada
               /\ \A c \in CorreccionEsperada :
                     c[1] = valor => retorno = ParsearLimpio(c[2])

C6_Witness ==
    /\ pc = "retorna"
    /\ valor = Str("MAY-15")
    /\ retorno = Par(Fin(FALSE, 5, 0), Fin(FALSE, 15, 0))

\* worked cases <<valor, return>>: one value and no separator
ValorUnicoEsperado ==
    {<<Str(m \o n[1] \o m), Par(n[2], n[2])>> : n \in LadosNumero, m \in Margenes}
    \cup {<<Str(m \o z \o m), Par(None, None)>> : z \in LadosNulos, m \in Margenes}

ValorUnicoEntradas == {c[1] : c \in ValorUnicoEsperado}

(* C7: an input with no separator is a single value: (v, v) when it parses *)
(* as the number v, (null, null) when it is a sentinel or unparseable.      *)
C7_ValorUnico ==
    pc # "llamar" =>
      /\ valor \in ValorUnicoEntradas => <<valor, retorno>> \in ValorUnicoEsperado
      /\ valor # None
           => LET v == ValorCorregido(valor.s)
                  num == PyFloat(Replace(v, ",", "."))
              IN  ~Contains(v, "-")
                    => retorno = IF num.t = "float" THEN Par(num, num) ELSE Par(None, None)

C7_Witness ==
    /\ pc = "retorna"
    /\ valor = Str("45")
    /\ retorno = Par(Fin(FALSE, 45, 0), Fin(FALSE, 45, 0))

EsOpcionalFloat(x) == x = None \/ x.t = "float"

(* C8: every call returns a pair and none raises; a side float() rejects    *)
(* becomes null for that side only, the other side is still parsed.         *)
C8_NuncaLanza ==
    /\ pc # "lanza"
    /\ pc = "retorna"
         => /\ retorno.t = "return"
            /\ Len(retorno.v) = 2
            /\ EsOpcionalFloat(retorno.v[1]) /\ EsOpcionalFloat(retorno.v[2])
    /\ (pc # "llamar" /\ valor # None /\ valor.s \notin Inmediatos)
         => LET partes == Partes(ValorCorregido(valor.s))
                a == PyFloat(Replace(Strip(partes[1]), ",", "."))
                b == PyFloat(Replace(Strip(partes[2]), ",", "."))
            IN  Len(partes) = 2
                  => /\ (a.t = "ValueError" /\ b.t = "float") => retorno = Par(b, b)
                     /\ (b.t = "ValueError" /\ a.t = "float") => retorno = Par(a, a)

C8_Witness ==
    /\ pc = "retorna"
    /\ valor = Str("x - 3000")
    /\ retorno = Par(Fin(FALSE, 3, 3), Fin(FALSE, 3, 3))

-----------------------------------------------------------------------------
(* The clean range format: a pair written back as text, f"{a} - {b}" *)

DigitChar(d) == SubSeq("0123456789", d + 1, d + 1)

RECURSIVE IntStr(_)
\* str(n) of an int n >= 0
IntStr(n) == IF n < 10 THEN DigitChar(n) ELSE IntStr(n \div 10) \o DigitChar(n % 10)

RECURSIVE Ceros(_)
Ceros(k) == IF k <= 0 THEN "" ELSE "0" \o Ceros(k - 1)

\* the digits d of a float with decimal exponent e, in positional notation
Posicional(d, e) ==
    IF e >= 0 THEN d \o Ceros(e) \o ".0"
    ELSE IF Len(d) + e > 0 THEN SubSeq(d, 1, Len(d) + e) \o "." \o Desde(d, Len(d) + e + 1)
    ELSE "0." \o Ceros(0 - (Len(d) + e)) \o d

\* the exponent of the scientific notation: a sign and two digits at least
ExpStr(x) ==
    (IF x < 0 THEN "-" ELSE "+")
       \o (IF x < 10 /\ x > 0 - 10 THEN "0" ELSE "")
       \o IntStr(IF x < 0 THEN 0 - x ELSE x)

\* the digits d of a float whose first digit has decimal exponent adj
Cientifica(d, adj) ==
    SubSeq(d, 1, 1) \o (IF Len(d) > 1 THEN "." \o Desde(d, 2) ELSE "") \o "e" \o ExpStr(adj)

\* repr of the digits d with decimal exponent e: positional from 1e-04 up to 1e+16
FinStr(d, e) ==
    IF Len(d) + e - 1 >= 0 - 4 /\ Len(d) + e - 1 < 16 THEN Posicional(d, e)
    ELSE Cientifica(d, Len(d) + e - 1)

\* str(x) of a float or None
FloatStr(x) ==
    IF x = None THEN "None"
    ELSE IF x.cls = "nan" THEN "nan"
    ELSE (IF x.neg THEN "-" ELSE "")
            \o (IF x.cls = "inf" THEN "inf" ELSE FinStr(IntStr(x.m), x.e))

\* the pair as clean text: "a - b", the sentinel when both bounds are null
Formato(par) ==
    IF par[1] = None /\ par[2] = None THEN "No establecido"
    ELSE FloatStr(par[1]) \o " - " \o FloatStr(par[2])

(* C9: round trip: every pair (a, b) a call returns, written back as       *)
(* 'a - b', or as the sentinel when both are null, parses to (a, b) again.  *)
C9_IdaYVuelta ==
    pc = "retorna" => ParsearRango(Str(Formato(retorno.v))) = retorno

C9_Witness ==
    /\ pc = "retorna"
    /\ valor = Str("1e-5 - 1e16")
    /\ retorno = Par(Fin(FALSE, 1, 0 - 5), Fin(FALSE, 1, 16))
    /\ Formato(retorno.v) = "1e-05 - 1e+16"

-----------------------------------------------------------------------------
(* Further properties of parsear_rango, over the calls of SpecRango *)

\* tokens outside the correction table, alone or padded, with the pair returned
DesconocidoEsperado ==
    { <<Str(m \o t[1] \o n), Par(t[2], t[2])>> :
         m \in Margenes, n \in Margenes,
         t \in { <<"jun-15", Fin(FALSE, 15, 0)>>, <<"JUN-15", Fin(FALSE, 15, 0)>>,
                 <<"1-ene", Fin(FALSE, 1, 0)>>, <<"1-ENE", Fin(FALSE, 1, 0)>> } }

DesconocidoEntradas == {c[1] : c \in DesconocidoEsperado}

LadosFinitos == {n \in LadosNumero : n[2].cls = "fin"}

\* two sides that both parse, the first greater than the second
InvertidoEsperado ==
    {<<Str(m \o ab[1][1] \o sep \o ab[2][1] \o m), Par(ab[1][2], ab[2][2])>> :
        ab \in {x \in LadosFinitos \X LadosFinitos : MayorQue(x[1][2], x[2][2])},
        sep \in Separadores, m \in Margenes}

InvertidoEntradas == {c[1] : c \in InvertidoEsperado}

(* C27: when both sides parse, minimo is the first side and maximo the     *)
(* second even if the first is the greater: an inverted range is neither   *)
(* swapped nor rejected, and 'dic-00', corrected to '12 - 0', gives        *)
(* (12.0, 0.0).                                                            *)
C27_SinIntercambio ==
    pc # "llamar" =>
      /\ valor \in InvertidoEntradas => <<valor, retorno>> \in InvertidoEsperado
      /\ valor = Str("dic-00") => /\ ValorCorregido(valor.s) = "12 - 0"
                                  /\ retorno = Par(Fin(FALSE, 12, 0), Fin(FALSE, 0, 0))

C27_Witness ==
    /\ pc = "retorna"
    /\ valor = Str("dic-00")
    /\ retorno = Par(Fin(FALSE, 12, 0), Fin(FALSE, 0, 0))

C27_OtroInvertido ==
    /\ pc = "retorna"
    /\ valor = Str("3000-0,8")
    /\ retorno = Par(Fin(FALSE, 3, 3), Fin(FALSE, 8, 0 - 1))

\* a bare hyphen before a number with no hyphen of its own: the positive pair
NegativoEsperado ==
    {<<Str(m \o "-" \o n[1] \o m), Par(n[2], n[2])>> : n \in LadosNumero, m \in Margenes}

\* a bare hyphen before a number with a negative exponent, and its positive pair
NegativoConExponente ==
    { <<Str("-1e-5"), Par(Fin(FALSE, 1, 0 - 5), Fin(FALSE, 1, 0 - 5))>>,
      <<Str("-1,5e-3"), Par(Fin(FALSE, 15, 0 - 4), Fin(FALSE, 15, 0 - 4))>> }

\* the pairs read as a single negative value
ExponenteEsperado ==
    { <<Str("-1e-5"), Par(Fin(TRUE, 1, 0 - 5), Fin(TRUE, 1, 0 - 5))>>,
      <<Str("-1,5e-3"), Par(Fin(TRUE, 15, 0 - 4), Fin(TRUE, 15, 0 - 4))>> }

NegativoEntradas == {c[1] : c \in NegativoEsperado}

ExponenteEntradas == {c[1] : c \in ExponenteEsperado}

(* C29: a negative number written with a leading bare hyphen and no padded *)
(* hyphen is not parsed as a single negative value: it is split into an    *)
(* empty first side and a numeric second side and the one-sided fallback   *)
(* returns the positive pair ('-5' gives (5.0, 5.0)).                      *)
C29_Original ==
    pc # "llamar" =>
      /\ valor \in NegativoEntradas => <<valor, retorno>> \in NegativoEsperado
      /\ valor \in ExponenteEntradas => <<valor, retorno>> \in NegativoConExponente

(* C29 as the code has it: a leading bare hyphen before a number that holds *)
(* no hyphen of its own is split off as an empty first side and the number *)
(* fills both fields as a positive pair; a number with a negative exponent *)
(* ('-1e-5') is split into three parts and read whole, as a single         *)
(* negative value.                                                         *)
C29_GuionInicial ==
    pc # "llamar" =>
      /\ valor \in NegativoEntradas => <<valor, retorno>> \in NegativoEsperado
      /\ valor \in ExponenteEntradas => <<valor, retorno>> \in ExponenteEsperado

C29_Witness ==
    /\ pc = "retorna"
    /\ valor = Str("-0,3")
    /\ Partes(ValorCorregido(valor.s)) = <<"", "0,3">>
    /\ retorno = Par(Fin(FALSE, 3, 0 - 1), Fin(FALSE, 3, 0 - 1))

C29_ConExponente ==
    /\ pc = "retorna"
    /\ valor = Str("-1e-5")
    /\ Len(Partes(ValorCorregido(valor.s))) = 3
    /\ retorno = Par(Fin(TRUE, 1, 0 - 5), Fin(TRUE, 1, 0 - 5))

-----------------------------------------------------------------------------
(* The calls of parsear_guatemala: one call per behaviour, its argument    *)
(* None or segments joined by '/'.                                          *)

MaxSegmentos == 3

Segmentos ==
    {"AL:15-3000", "PF:160-3000", "UL: 0,8-6", " PF :No establecido - 3000", "XX:45",
     "PF:No establecidos", "AL:1:2", "sin dato", "",
     "No establecidos"}

RECURSIVE Unidos(_, _)
\* the values of n segments joined by sep
Unidos(n, sep) ==
    IF n = 1 THEN Segmentos
    ELSE {v \o sep \o g : v \in Unidos(n - 1, sep), g \in Segmentos}

\* valor_limpio of the vitamins of Guatemala
DeGuatemala ==
    {ExtraerReferencias(Str(EntradasVitaminas[k].valor_original))[1] :
        k \in {j \in 1..Len(EntradasVitaminas) : EntradasVitaminas[j].pais = "Guatemala"}}

EntradasGuatemala ==
    {None} \cup {Str(c) : c \in UNION {Unidos(n, " / ") \cup Unidos(n, "/") : n \in 1..MaxSegmentos}
                                \cup DeGuatemala
                                \cup {"No establecidos", " No establecidos ", "No establecido"}}

InitGuatemala ==
    /\ pc = "llamar"
    /\ valor \in EntradasGuatemala
    /\ retorno = Pending
    /\ pos = 0
    /\ datos_normalizados = <<>>

\* retorno = parsear_guatemala(valor)
LlamarParsearGuatemala ==
    /\ pc = "llamar"
    /\ Termina(ParsearGuatemala(valor))

NextGuatemala == LlamarParsearGuatemala

SpecGuatemala == InitGuatemala /\ [][NextGuatemala]_vars

-----------------------------------------------------------------------------
(* Properties of parsear_guatemala, over the calls of SpecGuatemala *)

\* the fixed table of tags
Etiqueta(tag) ==
    IF tag = "AL" THEN "Suplementos Alimenticios"
    ELSE IF tag = "PF" THEN "Productos Farmacéuticos"
    ELSE IF tag = "UL" THEN "Límite Superior"
    ELSE tag

ConDosPuntos(seg) == Contains(seg, ":")

\* the entry the segment seg stands for: the tag before its first ':', the range after it
EntradaDe(seg) ==
    LET i == Find(seg, ":")
        r == ParsearRango(Str(Strip(Desde(seg, i + 1))))
    IN  [categoria |-> Etiqueta(Strip(SubSeq(seg, 1, i - 1))),
         minimo |-> r.v[1], maximo |-> r.v[2]]

\* one entry per segment of s that holds a colon, in the order of the segments
EntradasEsperadas(s) ==
    LET con == SelectSeq(Split(s, "/"), ConDosPuntos)
    IN  [k \in 1..Len(con) |-> EntradaDe(con[k])]

(* C10: parsear_guatemala returns exactly one entry per '/'-separated       *)
(* segment that holds a colon, in segment order: the category is the tag    *)
(* before the first ':' mapped by the fixed table (any other tag verbatim), *)
(* the bounds are parsear_rango of the text after the first ':'.            *)
C10_UnaEntradaPorSegmento ==
    /\ pc # "lanza"
    /\ (pc = "retorna" /\ valor # None) => retorno = Return(EntradasEsperadas(valor.s))
    /\ (pc = "retorna" /\ valor = Str("AL:15-3000 / PF:160-3000"))
          => retorno = Return(<< [categoria |-> "Suplementos Alimenticios",
                                  minimo |-> Fin(FALSE, 15, 0), maximo |-> Fin(FALSE, 3, 3)],
                                 [categoria |-> "Productos Farmacéuticos",
                                  minimo |-> Fin(FALSE, 16, 1), maximo |-> Fin(FALSE, 3, 3)] >>)

\* the same, for the values that hold the text 'No establecidos' nowhere
C10_SinCentinela ==
    (valor # None /\ ~Contains(valor.s, "No establecidos")) => C10_UnaEntradaPorSegmento

\* the segments of s that hold a colon, joined by '/' again
SoloConDosPuntos(s) == Join("/", SelectSeq(Split(s, "/"), ConDosPuntos))

HaySinDosPuntos(s) == \E k \in 1..Len(Split(s, "/")) : ~ConDosPuntos(Split(s, "/")[k])

(* C11: a segment without a colon is skipped: the result is the result of   *)
(* the value without its colon-less segments, so such a segment adds no     *)
(* entry and leaves the entries of the others unchanged and in order.       *)
C11_SinDosPuntosSeOmite ==
    (pc # "llamar" /\ valor # None /\ HaySinDosPuntos(valor.s))
       => retorno = ParsearGuatemala(Str(SoloConDosPuntos(valor.s)))

\* the same, for the values that hold the text 'No establecidos' nowhere
C11_SinCentinela ==
    (valor # None /\ ~Contains(valor.s, "No establecidos")) => C11_SinDosPuntosSeOmite

(* C12: a null input, and an input that is the plural sentinel              *)
(* 'No establecidos' and nothing else, give the empty sequence.             *)
C12_VacioParaCentinela ==
    (pc # "llamar" /\ (valor = None \/ valor = Str("No establecidos")))
       => retorno = Return(<<>>)

C12_Witness ==
    /\ pc = "retorna"
    /\ valor = Str("No establecidos")
    /\ retorno = Return(<<>>)

-----------------------------------------------------------------------------
(* The calls of extraer_referencias: one call per behaviour, its argument  *)
(* None, a string over AlfabetoRef up to MaxRef characters, a worked value  *)
(* or a value of the tables.                                                *)

MaxRef == 5

AlfabetoRef == {"[", "]", "1", ",", " "}

RECURSIVE CadenasRef(_)
CadenasRef(n) ==
    IF n = 0 THEN {""}
    ELSE CadenasRef(n - 1) \cup {c \o a : c \in CadenasRef(n - 1), a \in AlfabetoRef}

ValoresConReferencias ==
    {"180 - 3000 [1]", "AL:0,8-6 [1,2]", "5 [1] [2, 4, 5]", "180 [1] - 3000", "100 [ ]",
     "7 [1, ]", "10 [1", "10 1]", " 45 [a]\t[b] ", "AL:15-3000 [2] / PF:160-3000 [3]",
     "No establecidos [4]", "1 [[2] 3]", "[]"}

\* valor_original of every entry of the tables
OriginalesDeTablas ==
    {EntradasVitaminas[k].valor_original : k \in 1..Len(EntradasVitaminas)}
    \cup {EntradasMinerales[k].valor_original : k \in 1..Len(EntradasMinerales)}

EntradasReferencias ==
    {None} \cup {Str(c) : c \in CadenasRef(MaxRef) \cup ValoresConReferencias
                                \cup OriginalesDeTablas}

InitReferencias ==
    /\ pc = "llamar"
    /\ valor \in EntradasReferencias
    /\ retorno = Pending
    /\ pos = 0
    /\ datos_normalizados = <<>>

\* retorno = extraer_referencias(valor)
LlamarExtraerReferencias ==
    /\ pc = "llamar"
    /\ Termina(Return(ExtraerReferencias(valor)))

NextReferencias == LlamarExtraerReferencias

SpecReferencias == InitReferencias /\ [][NextReferencias]_vars

-----------------------------------------------------------------------------
(* Properties of extraer_referencias, over the calls of SpecReferencias *)

\* the first ']' of s after position i (0 if none)
Cierre(s, i) ==
    IF \E j \in (i + 1)..Len(s) : Ch(s, j) = "]"
    THEN CHOOSE j \in (i + 1)..Len(s) :
            Ch(s, j) = "]" /\ \A k \in (i + 1)..(j - 1) : Ch(s, k) # "]"
    ELSE 0

RECURSIVE Tramos(_, _)
\* the bracketed groups of s from position i on, each <<first, last>>: a '[',
\* one character or more that is not ']', and the ']' that follows
Tramos(s, i) ==
    IF i > Len(s) THEN <<>>
    ELSE IF Ch(s, i) = "[" /\ Cierre(s, i) > i + 1
         THEN <<<<i, Cierre(s, i)>>>> \o Tramos(s, Cierre(s, i) + 1)
         ELSE Tramos(s, i + 1)

EnTramo(s, i) == \E k \in 1..Len(Tramos(s, 1)) : Tramos(s, 1)[k][1] <= i /\ i <= Tramos(s, 1)[k][2]

RECURSIVE Filtrar(_, _, _)
\* the characters of s from i on that are in keep, in order
Filtrar(s, i, keep) ==
    IF i > Len(s) THEN ""
    ELSE (IF i \in keep THEN Ch(s, i) ELSE "") \o Filtrar(s, i + 1, keep)

\* s without its bracketed groups and without whitespace
FueraDeGrupos(s) ==
    Filtrar(s, 1, {i \in 1..Len(s) : ~EnTramo(s, i) /\ Ch(s, i) \notin Whitespace})

SinEspacios(s) == Filtrar(s, 1, {i \in 1..Len(s) : Ch(s, i) \notin Whitespace})

\* the brackets of s, in order, that are in no bracketed group
CorchetesSueltos(s) ==
    Filtrar(s, 1, {i \in 1..Len(s) : ~EnTramo(s, i) /\ Ch(s, i) \in {"[", "]"}})

Corchetes(s) == Filtrar(s, 1, {i \in 1..Len(s) : Ch(s, i) \in {"[", "]"}})

RECURSIVE MarcadoresDe(_, _, _)
\* the markers of the groups of s from the k-th on: comma order, trimmed
MarcadoresDe(s, tramos, k) ==
    IF k > Len(tramos) THEN <<>>
    ELSE LET partes == Split(SubSeq(s, tramos[k][1] + 1, tramos[k][2] - 1), ",")
         IN  [j \in 1..Len(partes) |-> Strip(partes[j])] \o MarcadoresDe(s, tramos, k + 1)

Llamada == pc = "retorna" /\ valor # None /\ valor.s # ""

(* C13: the markers are those of all the bracketed groups, in the order of *)
(* the groups and, within a group, in comma order with whitespace trimmed;  *)
(* the residual is the input with every group removed and every other      *)
(* character that is not whitespace kept, in order.                         *)
C13_MarcadoresYResiduo ==
    /\ Llamada => /\ retorno.v[2] = MarcadoresDe(valor.s, Tramos(valor.s, 1), 1)
                  /\ SinEspacios(retorno.v[1]) = FueraDeGrupos(valor.s)
                  /\ retorno.v[1] = Strip(retorno.v[1])
    /\ (pc = "retorna" /\ valor = Str("180 - 3000 [1]"))
          => retorno = Return(<<"180 - 3000", <<"1">> >>)
    /\ (pc = "retorna" /\ valor = Str("AL:0,8-6 [1,2]"))
          => retorno = Return(<<"AL:0,8-6", <<"1", "2">> >>)
    /\ (pc = "retorna" /\ valor = Str("5 [1] [2, 4, 5]"))
          => retorno = Return(<<"5", <<"1", "2", "4", "5">> >>)

C13_Witness ==
    /\ pc = "retorna"
    /\ valor = Str("AL:15-3000 [2] / PF:160-3000 [3]")
    /\ retorno = Return(<<"AL:15-3000 / PF:160-3000", <<"2", "3">> >>)

(* C14: the brackets of the residual are exactly the brackets of the input  *)
(* that belong to no well-formed group, so a value whose brackets are all   *)
(* matched leaves a residual with no bracket.                               *)
C14_SinCorchetes ==
    Llamada => Corchetes(retorno.v[1]) = CorchetesSueltos(valor.s)

C14_Witness ==
    /\ pc = "retorna"
    /\ valor = Str("5 [1] [2, 4, 5]")
    /\ Corchetes(retorno.v[1]) = ""
    /\ retorno.v[1] = "5"

(* C15: the marker list never holds an empty-string marker (a group with    *)
(* no valid marker adds nothing), and an unterminated bracket stays in the  *)
(* residual.                                                                *)
C15_SinMarcadorVacio ==
    Llamada => /\ \A k \in 1..Len(retorno.v[2]) : retorno.v[2][k] # ""
               /\ \A i \in 1..Len(valor.s) :
                     (Ch(valor.s, i) = "[" /\ Cierre(valor.s, i) = 0)
                        => Contains(retorno.v[1], "[")

\* the part of C15 about unterminated brackets alone
C15_SinCerrarQueda ==
    Llamada => \A i \in 1..Len(valor.s) :
                  (Ch(valor.s, i) = "[" /\ Cierre(valor.s, i) = 0)
                     => Contains(retorno.v[1], "[")

-----------------------------------------------------------------------------
(* One iteration of a loop of the driver on its own: the entry (country,   *)
(* label, value) is an entry of the tables or a country and a label with a  *)
(* value of ValoresDeEntrada, and the records it appends are kept in        *)
(* datos_normalizados.                                                      *)

ValoresDeEntrada ==
    {"180 - 3000 [1]", "AL:15-3000 / PF:160-3000", "AL:15-3000 [2] / PF:160-3000 [3]",
     "AL:0,8-6 [1,2]", "UL: 45", "AL:15-3000 / PF:No establecidos", "AL:15-3000 / sin dato",
     "AL:15-3000 / PF:No establecido", "PF:No establecidos [1]", "AL:may-15 / XX:x",
     "No establecidos", "No establecido - 3000 [2, 4]", "may-15", "dic-00 [7]", "x", "",
     "100 [ ]", "10 [1", "1 - 2 - 3", "0,8-6", "1-2-3", "-1e-5", "-5", "-0,5 [3]"}

EntradasSueltas ==
    {[pais |-> p, etiqueta |-> l, valor_original |-> v] :
        p \in {"Guatemala", "Argentina"}, l \in {"Vitamina C (mg)", "Hierro", "Zinc  (mg)"},
        v \in ValoresDeEntrada}

EntradasDeVitamina ==
    EntradasSueltas \cup {EntradasVitaminas[k] : k \in 1..Len(EntradasVitaminas)}

EntradasDeMineral ==
    EntradasSueltas \cup {EntradasMinerales[k] : k \in 1..Len(EntradasMinerales)}

InitEntrada ==
    /\ \/ pc = "vitamina" /\ valor \in EntradasDeVitamina
       \/ pc = "mineral" /\ valor \in EntradasDeMineral
    /\ retorno = Pending
    /\ pos = 0
    /\ datos_normalizados = <<>>

\* the appends of the iteration, or the exception that leaves the loop
Emite(registros, fin) ==
    /\ IF registros.t # "return"
       THEN pc' = "lanza" /\ UNCHANGED datos_normalizados
       ELSE pc' = fin /\ datos_normalizados' = datos_normalizados \o registros.v
    /\ UNCHANGED <<valor, retorno, pos>>

\* the body of the vitamin loop on the entry valor
CuerpoVitamina ==
    /\ pc = "vitamina"
    /\ Emite(RegistrosVitamina(valor), "fin_vitamina")

\* the body of the mineral loop on the entry valor
CuerpoMineral ==
    /\ pc = "mineral"
    /\ Emite(RegistrosMineral(valor), "fin_mineral")

NextEntrada == CuerpoVitamina \/ CuerpoMineral

SpecEntrada == InitEntrada /\ [][NextEntrada]_vars

-----------------------------------------------------------------------------
(* Properties of one iteration of the driver, over SpecEntrada *)

Procesada == pc \in {"fin_vitamina", "fin_mineral"}

\* valor_limpio of the entry at hand
Residuo == ExtraerReferencias(Str(valor.valor_original))[1]

TieneEtiqueta(s) == Contains(s, "AL:") \/ Contains(s, "PF:") \/ Contains(s, "UL:")

RamaCompuesta == pc = "fin_vitamina" /\ valor.pais = "Guatemala" /\ TieneEtiqueta(Residuo)

\* category and bounds of the records appended
Limites == [k \in 1..Len(datos_normalizados) |->
               [categoria |-> datos_normalizados[k].categoria_regulacion,
                minimo |-> datos_normalizados[k].minimo,
                maximo |-> datos_normalizados[k].maximo]]

(* C16: the composite branch is taken exactly for a vitamin of Guatemala    *)
(* whose residual holds 'AL:', 'PF:' or 'UL:', and then one record is       *)
(* emitted per entry of parsear_guatemala, with its category; every other   *)
(* entry gives exactly one record, 'Estándar', with the bounds of           *)
(* parsear_rango(residual).                                                 *)
C16_RamaCompuesta ==
    Procesada =>
      IF RamaCompuesta
      THEN Return(Limites) = ParsearGuatemala(Str(Residuo))
      ELSE /\ Len(datos_normalizados) = 1
           /\ datos_normalizados[1].categoria_regulacion = "Estándar"
           /\ Return(<<datos_normalizados[1].minimo, datos_normalizados[1].maximo>>)
                 = ParsearRango(Str(Residuo))

C16_Witness ==
    /\ RamaCompuesta
    /\ valor.valor_original = "AL:15-3000 [2] / PF:160-3000 [3]"
    /\ Len(datos_normalizados) = 2
    /\ datos_normalizados[1].categoria_regulacion = "Suplementos Alimenticios"
    /\ datos_normalizados[2].categoria_regulacion = "Productos Farmacéuticos"
    /\ datos_normalizados[2].minimo = Fin(FALSE, 16, 1)

(* The reference tables of crear_tablas_referencias_separadas: the pairs   *)
(* (marker id, description) in the order of declaration.                   *)

referencias_vitaminas ==
    <<
       <<"1", "Como Retinol Equivalente (RE).">>,
       <<"2", "Para embarazadas, lactantes y niños no se deberá exceder la IDR establecida en el Artículo 1387 del CAA.">>,
       <<"3", "1 mcg beta-caroteno = 0,167 mcg RE.">>,
       <<"4", "Para embarazadas, lactantes y niños no se deberá exceder la IDR establecida en el Artículo 1387 del CAA.">>,
       <<"5", "Para embarazadas, lactantes y niños no se deberá exceder la IDR establecida en el Artículo 1387 del CAA.">>,
       <<"6", "Para embarazadas, lactantes y niños no se deberá exceder la IDR establecida en el Artículo 1387 del CAA.">>,
       <<"7", "Niacina: niacina preformada (ácido nicotínico + nicotinamida). Para embarazadas, lactantes y niños no se deberá exceder la IDR establecida en el Artículo 1387 del CAA.">>,
       <<"8", "Para embarazadas, lactantes y niños no se deberá exceder la IDR establecida en el Artículo 1387 del CAA.">>,
       <<"9", "Para embarazadas, lactantes y niños no se deberá exceder la IDR establecida en el Artículo 1387 del CAA.">>,
       <<"10", "Para embarazadas, lactantes y niños no se deberá exceder la IDR establecida en el Artículo 1387 del CAA.">>,
       <<"11", "Para embarazadas, lactantes y niños no se deberá exceder la IDR establecida en el Artículo 1387 del CAA.">>,
       <<"12", "Para embarazadas, lactantes y niños no se deberá exceder la IDR establecida en el Artículo 1387 del CAA.">>,
       <<"13", "Como Tocoferol equivalente (TE). Para embarazadas, lactantes y niños no se deberá exceder la IDR establecida en el Artículo 1387 del CAA.">>,
       <<"14", "Para embarazadas, lactantes y niños no se deberá exceder la IDR establecida en el Artículo 1387 del CAA.">>,
       <<"15", "Valores establecidos para poblaciones iguales o mayores a 19 años. Como equivalente de actividad de retinol (RAE). 1 RAE = 3,33 UI de vitamina A.">>,
       <<"16", "Valores establecidos para poblaciones iguales o mayores a 19 años. Como equivalente de folato dietético (EFD).">>,
       <<"17", "Valores establecidos para poblaciones iguales o mayores a 19 años. Considerar factor de conversión 1 mcg beta-caroteno = 0,167 mcg RE.">>,
       <<"18", "Valores establecidos para poblaciones iguales o mayores a 19 años.">>,
       <<"19", "Valores establecidos para poblaciones iguales o mayores a 19 años.">>,
       <<"20", "Valores establecidos para poblaciones iguales o mayores a 19 años.">>,
       <<"21", "Valores establecidos para poblaciones iguales o mayores a 19 años.">>,
       <<"22", "Valores establecidos para poblaciones iguales o mayores a 19 años.">>,
       <<"23", "Valores establecidos para poblaciones iguales o mayores a 19 años.">>,
       <<"24", "Valores establecidos para poblaciones iguales o mayores a 19 años.">>,
       <<"25", "Valores establecidos para poblaciones iguales o mayores a 19 años.">>,
       <<"26", "Valores establecidos para poblaciones iguales o mayores a 19 años. Como Colecalciferol. 1 μg colecalciferol = 40 UI vitamina D.">>,
       <<"27", "Valores establecidos para poblaciones iguales o mayores a 19 años. Como α-tocoferol.">>,
       <<"28", "Valores establecidos para poblaciones iguales o mayores a 19 años.">>,
       <<"29", "Se debe incluir frase de advertencia especifica en el rotulo sobre el consumo de este ingrediente.">>,
       <<"30", "Se debe incluir frase de advertencia especifica en el rotulo sobre el consumo de este ingrediente.">>,
       <<"31", "Se debe incluir frase de advertencia especifica en el rotulo sobre el consumo de este ingrediente.">>,
       <<"32", "Se debe incluir frase de advertencia especifica en el rotulo sobre el consumo de este ingrediente.">>,
       <<"33", "Valor máximo establecido para hombres a partir de 19 años.">>,
       <<"34", "Valor máximo establecido para hombres a partir de 19 años.">>,
       <<"35", "Valor máximo establecido para hombres a partir de 19 años.">>,
       <<"36", "Valor máximo establecido para hombres a partir de 19 años.">>,
       <<"37", "Valor máximo establecido para hombres a partir de 19 años.">>,
       <<"38", "Valor máximo establecido para hombres a partir de 19 años.">>,
       <<"39", "Valor máximo establecido para hombres a partir de 19 años.">>,
       <<"40", "Valor máximo establecido para hombres a partir de 19 años.">>,
       <<"41", "Valor máximo establecido para hombres a partir de 19 años.">>,
       <<"42", "Valor máximo establecido para hombres a partir de 19 años.">>,
       <<"43", "Valor máximo establecido para hombres a partir de 19 años.">>,
       <<"44", "Valor máximo establecido para hombres a partir de 19 años.">>,
       <<"45", "Valor máximo establecido para hombres a partir de 19 años.">>,
       <<"46", "Valor máximo establecido para hombres a partir de 19 años.">>,
       <<"47", "Valor máximo establecido para hombres a partir de 19 años.">>,
       <<"48", "AL: Suplementos alimenticios (alimentos) PF: Suplementos dietéticos (productos farmacéuticos)">>,
       <<"49", "AL: Suplementos alimenticios (alimentos) PF: Suplementos dietéticos (productos farmacéuticos)">>,
       <<"50", "UL: Límite Superior PF: Productos farmacéuticos">>,
       <<"51", "AL: Suplementos alimenticios (alimentos) PF: Suplementos dietéticos (productos farmacéuticos)">>,
       <<"52", "AL: Suplementos alimenticios (alimentos) PF: Suplementos dietéticos (productos farmacéuticos)">>,
       <<"53", "AL: Suplementos alimenticios (alimentos) PF: Suplementos dietéticos (productos farmacéuticos)">>,
       <<"54", "AL: Suplementos alimenticios (alimentos) PF: Suplementos dietéticos (productos farmacéuticos)">>,
       <<"55", "AL: Suplementos alimenticios (alimentos) PF: Suplementos dietéticos (productos farmacéuticos)">>,
       <<"56", "AL: Suplementos alimenticios (alimentos) PF: Suplementos dietéticos (productos farmacéuticos)">>,
       <<"57", "AL: Suplementos alimenticios (alimentos) PF: Suplementos dietéticos (productos farmacéuticos)">>,
       <<"58", "AL: Suplementos alimenticios (alimentos) PF: Suplementos dietéticos (productos farmacéuticos)">>,
       <<"59", "AL: Suplementos alimenticios (alimentos) PF: Suplementos dietéticos (productos farmacéuticos)">>,
       <<"60", "AL: Suplementos alimenticios (alimentos) PF: Suplementos dietéticos (productos farmacéuticos)">>,
       <<"61", "AL: Suplementos alimenticios (alimentos) PF: Suplementos dietéticos (productos farmacéuticos) NE: No establecido.">>
    >>

referencias_minerales ==
    <<
       <<"1", "Para embarazadas, lactantes y niños no se deberá exceder la IDR establecida en el Artículo 1387 del CAA.">>,
       <<"2", "Para embarazadas, lactantes y niños no se deberá exceder la IDR establecida en el Artículo 1387 del CAA.">>,
       <<"3", "Para embarazadas, lactantes y niños no se deberá exceder la IDR establecida en el Artículo 1387 del CAA.">>,
       <<"4", "Para embarazadas, lactantes y niños no se deberá exceder la IDR establecida en el Artículo 1387 del CAA.">>,
       <<"5", "El nutriente no se encuentra descrito en la lista de vitaminas y minerales permitidos en suplementos alimentarios del Artículo 1381 del CAA.">>,
       <<"6", "Para embarazadas, lactantes y niños no se deberá exceder la IDR establecida en el Artículo 1387 del CAA.">>,
       <<"7", "Para embarazadas, lactantes y niños no se deberá exceder la IDR establecida en el Artículo 1387 del CAA.">>,
       <<"8", "Para embarazadas, lactantes y niños no se deberá exceder la IDR establecida en el Artículo 1387 del CAA.">>,
       <<"9", "Para embarazadas, lactantes y niños no se deberá exceder la IDR establecida en el Artículo 1387 del CAA.">>,
       <<"10", "Para embarazadas, lactantes y niños no se deberá exceder la IDR establecida en el Artículo 1387 del CAA.">>,
       <<"11", "Para embarazadas, lactantes y niños no se deberá exceder la IDR establecida en el Artículo 1387 del CAA.">>,
       <<"12", "Para embarazadas, lactantes y niños no se deberá exceder la IDR establecida en el Artículo 1387 del CAA.">>,
       <<"13", "Para embarazadas, lactantes y niños no se deberá exceder la IDR establecida en el Artículo 1387 del CAA.">>,
       <<"14", "Aprobado solo para productos destinados a poblaciones iguales o superiores a 19 años de edad.">>,
       <<"15", "Valor establecido para poblaciones iguales o mayores a 19 años. Valores para otros grupos poblacionales: a. 0 - 6 meses: 30 - 800 mg b. 7 - 11 meses: 39 - 1240 mg c. 1 - 3 años: 105 - 1800 mg d. 4 - 8 años: 150 - 1500 mg e. 9 - 18 años: 195 - 2516,59 mg f. Gestantes: 195 - 2015,51 mg g. Lactantes: 195 - 2082,58 mg Observaciones: la relación mínima calcio/fósforo debe ser de 1:1 y la máxima de 2:1 cuando ambos minerales están presentes en el producto.">>,
       <<"16", "Valor establecido para poblaciones iguales o mayores a 19 años. Valores para otros grupos poblacionales: a. 0 - 11 meses: No autorizado b. 1 - 3 años: 51 - 660 mg c. 4 - 8 años: 66 - 2560 mg d. 9 - 18 años: 133,5 - 3960,51 mg e. Gestantes: 150 - 6935,01 mg f. Lactantes: 195 - 7036,33 mg">>,
       <<"17", "Valor establecido para poblaciones iguales o mayores a 19 años. Valores para otros grupos poblacionales: a. 0 - 6 meses: 0,03 - 0,03 mg b. 7 - 11 meses: 0,825 - 8,25 c. 1 - 3 años: 1,65 - 16,5 mg d. 4 - 8 años: 2,25 - 22,5 mg e. 9 - 18 años: 5,25 - 52,5 mg f. Gestantes: 4,5 - 45 mg g. Lactantes: 6,75 - 67,5 mg">>,
       <<"18", "Valor establecido para poblaciones iguales o mayores a 19 años. Valores para otros grupos poblacionales: a. 0 - 11 meses: No autorizado b. 1 - 3 años: 69 - 2540 mg c. 4 - 8 años: 75 - 2500 mg d. 9 - 18 años: 187,5 - 3077,54 mg e. Gestantes: 187,5 - 2533,15 mg f. Lactantes: 187,5 - 3123,51 mg Observaciones: la relación calcio/fósforo mínima debe ser de 1:1 y la máxima de 2:1 cuando ambos minerales están presentes en el producto.">>,
       <<"19", "Valor establecido para poblaciones iguales o mayores a 19 años. Valores para otros grupos poblacionales: a. 0 - 6 meses: 0,04 - 39,73 mg b. 7 - 11 meses: 1,65 - 29 mg c. 1 - 3 años: 1,05 - 33 mg d. 4 - 8 años: 1,5 - 30 mg e. 9 - 18 años: 2,25 - 29 mg f. Gestantes: 4,05 - 34,71 mg g. Lactantes: 1,5 - 24,96 mg">>,
       <<"20", "Valor establecido para poblaciones iguales o mayores a 19 años. Valores para otros grupos poblacionales: a. 0 - 11 meses: No autorizado b. 1 - 3 años: 12 - 65 mg c. 4 - 8 años: 19,5 - 110 mg d. 9 - 18 años: 63 - 350 mg e. Gestantes: 60 - 350 mg f. Lactantes: 54 - 350 mg">>,
       <<"21", "Valor establecido para poblaciones iguales o mayores a 19 años. Valores para otros grupos poblacionales: a. 0 - 11 meses: No autorizado b. 1 - 3 años: No autorizado c. 4 - 8 años: No autorizado d. 9 - 18 años: No autorizado e. Gestantes: No autorizado f. Lactantes: No autorizado">>,
       <<"22", "Valor establecido para poblaciones iguales o mayores a 19 años. Valores para otros grupos poblacionales: a. 0 - 11 meses: No autorizado b. 1 - 3 años: 2,55 - 283 mg c. 4 - 8 años: 3,3 - 578 mg d. 9 - 18 años: 6,45 - 1057 mg e. Gestantes: 7,5 - 1650 mg f. Lactantes: 7,5 - 1650 mg">>,
       <<"23", "La regulación establece restricciones para el uso del ingrediente.">>,
       <<"24", "Valor establecido para poblaciones iguales o mayores a 19 años. Valores para otros grupos poblacionales: a. 0 - 6 meses: 2,25 - 30 mg b. 7 - 11 meses: 3 - 40 c. 1 - 3 años: 3 - 70 mg d. 4 - 8 años: 4,5 - 120 mg e. 9 - 18 años: 8,25 - 202,46 mg f. Gestantes: 9 - 309,65 mg g. Lactantes: 10,5 - 320,20 mg">>,
       <<"25", "El ingrediente se encuentra autorizado dentro de las sustancias bioactivas.">>,
       <<"26", "La regulación establece restricciones para el uso del ingrediente.">>,
       <<"27", "Valor establecido para poblaciones iguales o mayores a 19 años. Valores para otros grupos poblacionales: a. 0 - 11 meses: No autorizado b. 1 - 3 años: 13,5 - 110 mg c. 4 - 8 años: 13,5 - 210 mg d. 9 - 18 años: 63 - 350 mg e. Gestantes: 33 - 717,56 mg f. Lactantes: 43,5 - 724,36 mg">>,
       <<"28", "Valor establecido para poblaciones iguales o mayores a 19 años. Valores para otros grupos poblacionales: a. 0 - 6 meses: 0,3 - 2 mg b. 7 - 11 meses: 0,45 - 2 mg c. 1 - 3 años: 0,45 - 4 mg d. 4 - 8 años: 0,75 - 7 mg e. 9 - 18 años: 1,65 - 12,77 mg f. Gestantes: 1,8 - 23,50 mg g. Lactantes: 1,95 - 24,45 mg">>,
       <<"29", "Solo permitido en productos que recaen como alimentos para atletas.">>,
       <<"30", "Solo permitido en productos que recaen como alimentos para atletas.">>,
       <<"31", "Se debe incluir frase de advertencia especifica en el rotulo sobre el consumo de este ingrediente.">>,
       <<"32", "Se debe incluir frase de advertencia especifica en el rotulo sobre el consumo de este ingrediente.">>,
       <<"33", "Se debe incluir frase de advertencia especifica en el rotulo sobre el consumo de este ingrediente.">>,
       <<"34", "Se debe incluir frase de advertencia especifica en el rotulo sobre el consumo de este ingrediente.">>,
       <<"35", "La regulación presenta typos en la unidad correspondiente al valor mínimo, haciendo mención a microgramos (µg) siendo la unidad correcta miligramos (mg).">>,
       <<"36", "Valor máximo establecido para hombres a partir de 19 años. Para otros grupos poblacionales los límites máximos son los siguientes: Mujeres 19: 20 Embarazadas: 20 Lactantes: 20">>,
       <<"37", "Valor máximo establecido para hombres a partir de 19 años. Para otros grupos poblacionales los límites máximos son los siguientes: Mujeres 19: 2500 Embarazadas: 2500 Lactantes: 2500">>,
       <<"38", "Valor máximo establecido para hombres a partir de 19 años. Para otros grupos poblacionales los límites máximos son los siguientes: Mujeres 19: 10 Embarazadas: 10 Lactantes: 10">>,
       <<"39", "Valor máximo establecido para hombres a partir de 19 años. Para otros grupos poblacionales los límites máximos son los siguientes: Mujeres 19: No establecido Embarazadas: No establecido Lactantes: No establecido">>,
       <<"40", "Valor máximo establecido para hombres a partir de 19 años. Para otros grupos poblacionales los límites máximos son los siguientes: Mujeres 19: 10 Embarazadas: 10 Lactantes: 10">>,
       <<"41", "Valor máximo establecido para hombres a partir de 19 años. Para otros grupos poblacionales los límites máximos son los siguientes: Mujeres 19: 4000 Embarazadas: 3500 Lactantes: 4000">>,
       <<"42", "Valor máximo establecido para hombres a partir de 19 años. Para otros grupos poblacionales los límites máximos son los siguientes: Mujeres 19: No establecido Embarazadas: No establecido Lactantes: No establecido">>,
       <<"43", "Valor máximo establecido para hombres a partir de 19 años. Para otros grupos poblacionales los límites máximos son los siguientes: Mujeres 19: 350 Embarazadas: 350 Lactantes: 350">>,
       <<"44", "Valor máximo establecido para hombres a partir de 19 años. Para otros grupos poblacionales los límites máximos son los siguientes: Mujeres 19: 11 Embarazadas: 11 Lactantes: 11">>,
       <<"45", "Valor máximo establecido para hombres a partir de 19 años. Para otros grupos poblacionales los límites máximos son los siguientes: Mujeres 19: 2000 Embarazadas: 2000 Lactantes: 2000">>,
       <<"46", "Valor máximo establecido para hombres a partir de 19 años. Para otros grupos poblacionales los límites máximos son los siguientes: Mujeres 19: 1,0 Embarazadas: 1,0 Lactantes: 1,0">>,
       <<"47", "Valor máximo establecido para hombres a partir de 19 años. Para otros grupos poblacionales los límites máximos son los siguientes: Mujeres 19: No establecido Embarazadas: No establecido Lactantes: No establecido">>,
       <<"48", "Valor máximo establecido para hombres a partir de 19 años. Para otros grupos poblacionales los límites máximos son los siguientes: Mujeres 19: 400 Embarazadas: 400 Lactantes: 400">>,
       <<"49", "Valor máximo establecido para hombres a partir de 19 años. Para otros grupos poblacionales los límites máximos son los siguientes: Mujeres 19: No establecido Embarazadas: No establecido Lactantes: No establecido">>,
       <<"50", "Valor máximo establecido para hombres a partir de 19 años. Para otros grupos poblacionales los límites máximos son los siguientes: Mujeres 19: 2300 Embarazadas: 2300 Lactantes: 2300">>,
       <<"51", "Valor máximo establecido para hombres a partir de 19 años. Para otros grupos poblacionales los límites máximos son los siguientes: Mujeres 19: 1,8 Embarazadas: No establecido Lactantes: No establecido">>,
       <<"52", "Valor máximo establecido para hombres a partir de 19 años. Para otros grupos poblacionales los límites máximos son los siguientes: Mujeres 19: 1100 Embarazadas: 1100 Lactantes: 1100">>,
       <<"53", "Valor máximo establecido para hombres a partir de 19 años. Para otros grupos poblacionales los límites máximos son los siguientes: Mujeres 19: 40 Embarazadas:40 Lactantes: 40">>,
       <<"54", "AL: Suplementos alimenticios (alimentos) PF: Suplementos dietéticos (productos farmacéuticos) ND: No descrito. NE: No establecido.">>,
       <<"55", "AL: Suplementos alimenticios (alimentos) PF: Suplementos dietéticos (productos farmacéuticos)">>,
       <<"56", "AL: Suplementos alimenticios (alimentos) PF: Suplementos dietéticos (productos farmacéuticos)">>,
       <<"57", "AL: Suplementos alimenticios (alimentos) PF: Suplementos dietéticos (productos farmacéuticos) NE: No establecido.">>,
       <<"58", "AL: Suplementos alimenticios (alimentos) PF: Suplementos dietéticos (productos farmacéuticos)">>,
       <<"59", "AL: Suplementos alimenticios (alimentos) PF: Suplementos dietéticos (productos farmacéuticos)">>,
       <<"60", "AL: Suplementos alimenticios (alimentos) PF: Suplementos dietéticos (productos farmacéuticos)">>,
       <<"61", "AL: Suplementos alimenticios (alimentos) PF: Suplementos dietéticos (productos farmacéuticos)">>,
       <<"62", "AL: Suplementos alimenticios (alimentos) PF: Suplementos dietéticos (productos farmacéuticos)">>,
       <<"63", "AL: Suplementos alimenticios (alimentos) PF: Suplementos dietéticos (productos farmacéuticos)">>,
       <<"64", "AL: Suplementos alimenticios (alimentos) PF: Suplementos dietéticos (productos farmacéuticos) NE: No establecido.">>,
       <<"65", "AL: Suplementos alimenticios (alimentos) PF: Suplementos dietéticos (productos farmacéuticos) NE: No establecido.">>,
       <<"66", "AL: Suplementos alimenticios (alimentos) PF: Suplementos dietéticos (productos farmacéuticos)">>,
       <<"67", "AL: Suplementos alimenticios (alimentos) PF: Suplementos dietéticos (productos farmacéuticos) ND: No descrito.">>,
       <<"68", "AL: Suplementos alimenticios (alimentos) PF: Suplementos dietéticos (productos farmacéuticos) NE: No establecido.">>,
       <<"69", "AL: Suplementos alimenticios (alimentos) PF: Suplementos dietéticos (productos farmacéuticos) ND: No descrito.">>,
       <<"70", "AL: Suplementos alimenticios (alimentos) PF: Suplementos dietéticos (productos farmacéuticos)">>,
       <<"71", "AL: Suplementos alimenticios (alimentos) PF: Suplementos dietéticos (productos farmacéuticos)">>,
       <<"72", "Valores solo de referencia">>
    >>

\* every row of a table under the kind 'Vitamina'
FilasComoVitamina(tabla, tipo) ==
    [k \in 1..Len(tabla) |->
        [referencia |-> tabla[k][1], descripcion |-> tabla[k][2], tipo |-> "Vitamina"]]

\* pd.DataFrame([{'referencia': key, 'descripcion': value, 'tipo': tipo} for key, value in ...])
Filas(tabla, tipo) ==
    [k \in 1..Len(tabla) |->
        [referencia |-> tabla[k][1], descripcion |-> tabla[k][2], tipo |-> tipo]]

df_referencias_vitaminas == Filas(referencias_vitaminas, "Vitamina")

df_referencias_minerales == Filas(referencias_minerales, "Mineral")

\* pd.concat([df_referencias_vitaminas, df_referencias_minerales], ignore_index=True)
df_referencias == df_referencias_vitaminas \o df_referencias_minerales

-----------------------------------------------------------------------------
(* enriquecer_con_referencias of src/dashboard.py. A row holds the fields   *)
(* referencias (None for a missing value) and tipo of a record.             *)

\* the texts that stand for no reference
SinReferencia == {"", "nan", "None"}

\* the rows of the given marker whatever their kind
FilasDeCualquierTipo(df, ref, tipo) == SelectSeq(df, LAMBDA fila : fila.referencia = ref)

\* df_referencias[(df_referencias['referencia'] == ref) & (df_referencias['tipo'] == tipo)]
FilasDe(df, ref, tipo) ==
    SelectSeq(df, LAMBDA fila : fila.referencia = ref /\ fila.tipo = tipo)

\* the append of the found marker only
AppendSoloEncontrada(descripciones, ref, tipo, ref_row) ==
    IF ref_row # <<>>
    THEN Append(descripciones, "[" \o ref \o "] " \o ref_row[1].descripcion)
    ELSE descripciones

\* descripciones.append(...) of either branch of "if not ref_row.empty"; the
\* warning sign of the source text is followed by the variation selector
\* U+FE0F, which has no glyph and is left out here
AppendDescripcion(descripciones, ref, tipo, ref_row) ==
    IF ref_row # <<>>
    THEN Append(descripciones, "[" \o ref \o "] " \o ref_row[1].descripcion)
    ELSE Append(descripciones, "[" \o ref \o "] ⚠ No encontrada (tipo: " \o tipo \o ")")

\* one turn of "for ref in referencias_list" after ref = ref.strip()
DescribirRef(descripciones, ref, tipo, df) ==
    IF ref \in SinReferencia THEN descripciones
    ELSE AppendDescripcion(descripciones, ref, tipo, FilasDe(df, ref, tipo))

RECURSIVE Descripciones(_, _, _, _, _)
\* the loop over referencias_list from its k-th element on
Descripciones(descripciones, referencias_list, tipo, df, k) ==
    IF k > Len(referencias_list) THEN descripciones
    ELSE Descripciones(DescribirRef(descripciones, Strip(referencias_list[k]), tipo, df),
                       referencias_list, tipo, df, k + 1)

\* the body of the try block, on the stripped text
DescribirTexto(texto, tipo, df) ==
    IF texto \in SinReferencia THEN ""
    ELSE Join(" | ", Descripciones(<<>>, Split(texto, ","), tipo, df, 1))

\* obtener_descripcion_referencias(referencias_str, tipo); no operation of the
\* try block raises on a text, so the except branch is never taken
ObtenerDescripcionReferencias(referencias_str, tipo, df) ==
    IF referencias_str = None THEN ""
    ELSE IF referencias_str.s \in SinReferencia THEN ""
    ELSE DescribirTexto(Strip(referencias_str.s), tipo, df)

\* a row of df_enriquecido: the row with the column descripcion_referencias
FilaEnriquecida(fila, df) ==
    [referencias |-> fila.referencias,
     tipo |-> fila.tipo,
     descripcion_referencias |-> ObtenerDescripcionReferencias(fila.referencias, fila.tipo, df)]

-----------------------------------------------------------------------------
(* The calls of enriquecer_con_referencias(df, df_referencias): df holds    *)
(* one row, whose referencias field is missing or a text of up to           *)
(* MaxMarcadores comma-separated pieces, and df_referencias is the catalog. *)

MaxMarcadores == 2

\* markers of both tables, of one table only, of neither, and blank pieces
Piezas == {"1", "2", "61", "62", "72", "73", "99", "", " 1 ", " 73", "nan", "None"}

TextosDe(n) == {Join(",", lista) : lista \in [1..n -> Piezas]}

CamposReferencias == {None} \cup {Str(t) : t \in UNION {TextosDe(n) : n \in 1..MaxMarcadores}}

FilasDeEntrada == [referencias : CamposReferencias, tipo : {"Vitamina", "Mineral"}]

InitCatalogo ==
    /\ pc = "enriquecer"
    /\ valor \in FilasDeEntrada
    /\ retorno = Pending
    /\ pos = 0
    /\ datos_normalizados = <<>>

\* df_enriquecido = enriquecer_con_referencias(df, df_referencias)
EnriquecerConReferencias ==
    /\ pc = "enriquecer"
    /\ pc' = "enriquecido"
    /\ datos_normalizados' = <<FilaEnriquecida(valor, df_referencias)>>
    /\ retorno' = Return(datos_normalizados')
    /\ UNCHANGED <<valor, pos>>

NextCatalogo == EnriquecerConReferencias

SpecCatalogo == InitCatalogo /\ [][NextCatalogo]_vars

-----------------------------------------------------------------------------
(* Properties of the catalog and of its lookup, over the calls of SpecCatalogo *)

Enriquecido == pc = "enriquecido"

\* the fixed table of a kind
TablaDelTipo(tipo) == IF tipo = "Vitamina" THEN referencias_vitaminas ELSE referencias_minerales

\* the fixed table of the other kind
TablaDelOtroTipo(tipo) ==
    IF tipo = "Vitamina" THEN referencias_minerales ELSE referencias_vitaminas

\* the marker ids of a fixed table
Claves(tabla) == {tabla[k][1] : k \in 1..Len(tabla)}

\* the description of marker m in a fixed table that holds it
DescripcionEn(tabla, m) == tabla[CHOOSE k \in 1..Len(tabla) : tabla[k][1] = m][2]

NoEsBlanco(m) == m \notin SinReferencia

\* the markers the row cites: the trimmed pieces of its referencias field
Citados ==
    IF valor.referencias = None THEN <<>>
    ELSE LET piezas == Split(valor.referencias.s, ",")
         IN  SelectSeq([k \in 1..Len(piezas) |-> Strip(piezas[k])], NoEsBlanco)

\* the description the call put in the row, marker by marker
PartesDescritas ==
    IF datos_normalizados[1].descripcion_referencias = "" THEN <<>>
    ELSE Split(datos_normalizados[1].descripcion_referencias, " | ")

\* the catalog holds marker m under the kind of the row
EnCatalogo(m) == m \in Claves(TablaDelTipo(valor.tipo))

\* one entry per (marker id, kind) of the two fixed tables, with its description
UnaFilaPorClave ==
    /\ Len(df_referencias) = Len(referencias_vitaminas) + Len(referencias_minerales)
    /\ Cardinality({<<df_referencias[i].referencia, df_referencias[i].tipo>> :
                       i \in 1..Len(df_referencias)}) = Len(df_referencias)
    /\ \A tipo \in {"Vitamina", "Mineral"} : \A m \in Claves(TablaDelTipo(tipo)) :
          \E i \in 1..Len(df_referencias) :
             df_referencias[i] = [referencia |-> m, tipo |-> tipo,
                                  descripcion |-> DescripcionEn(TablaDelTipo(tipo), m)]
    /\ DescripcionEn(referencias_vitaminas, "1") # DescripcionEn(referencias_minerales, "1")

(* C22: the catalog holds exactly one entry per (marker id, kind) of the   *)
(* two fixed tables with the description of that table, marker '1' has a   *)
(* different description under each kind, and the lookup gives every cited *)
(* marker the description its own kind's table holds for it, never the one *)
(* of the other kind's table.                                              *)
C22_ClavePorTipo ==
    /\ UnaFilaPorClave
    /\ Enriquecido =>
          /\ Len(PartesDescritas) = Len(Citados)
          /\ \A k \in 1..Len(Citados) :
                /\ EnCatalogo(Citados[k]) =>
                      PartesDescritas[k] = "[" \o Citados[k] \o "] "
                           \o DescripcionEn(TablaDelTipo(valor.tipo), Citados[k])
                /\ (~EnCatalogo(Citados[k])
                       /\ Citados[k] \in Claves(TablaDelOtroTipo(valor.tipo))) =>
                      PartesDescritas[k] # "[" \o Citados[k] \o "] "
                           \o DescripcionEn(TablaDelOtroTipo(valor.tipo), Citados[k])

C22_Witness ==
    /\ Enriquecido
    /\ valor = [referencias |-> Str("1,62"), tipo |-> "Mineral"]
    /\ PartesDescritas[1] = "[1] " \o DescripcionEn(referencias_minerales, "1")
    /\ PartesDescritas[1] # "[1] Como Retinol Equivalente (RE)."
    /\ PartesDescritas[2] = "[62] " \o DescripcionEn(referencias_minerales, "62")

\* the row cites a marker its kind's table does not hold
CitaAusente == \E k \in 1..Len(Citados) : ~EnCatalogo(Citados[k])

(* C23: when the row cites a marker absent from the catalog for its kind,  *)
(* the lookup does not fail: the description holds, in the place of that   *)
(* marker, the marker with a visible 'not found' text, and the other       *)
(* markers of the row are resolved as usual.                               *)
C23_AusenteVisible ==
    /\ pc # "lanza"
    /\ (Enriquecido /\ CitaAusente) =>
          /\ retorno = Return(datos_normalizados)
          /\ ~StartsAt(datos_normalizados[1].descripcion_referencias, "Error", 1)
          /\ Len(PartesDescritas) = Len(Citados)
          /\ \A k \in 1..Len(Citados) :
                IF EnCatalogo(Citados[k])
                THEN PartesDescritas[k] = "[" \o Citados[k] \o "] "
                          \o DescripcionEn(TablaDelTipo(valor.tipo), Citados[k])
                ELSE /\ StartsAt(PartesDescritas[k], "[" \o Citados[k] \o "] ", 1)
                     /\ Contains(PartesDescritas[k], "No encontrada")

C23_Witness ==
    /\ Enriquecido
    /\ valor = [referencias |-> Str("73,1"), tipo |-> "Vitamina"]
    /\ datos_normalizados[1].descripcion_referencias
          = "[73] ⚠ No encontrada (tipo: Vitamina) | [1] Como Retinol Equivalente (RE)."

-----------------------------------------------------------------------------
(* Properties of the output of normalizar_datos_suplementos, over Spec *)

Terminado == pc = "fin"

\* the positions of the records of entry e of the given kind
DeEntrada(e, tipo) ==
    {i \in 1..Len(datos_normalizados) :
        /\ datos_normalizados[i].pais = e.pais
        /\ datos_normalizados[i].tipo = tipo
        /\ datos_normalizados[i].ingrediente = NombreLimpio(e.etiqueta)}

\* the entry takes the composite branch
Compuesta(e) ==
    e.pais = "Guatemala" /\ TieneEtiqueta(ExtraerReferencias(Str(e.valor_original))[1])

Triple(r) == <<r.pais, r.ingrediente, r.categoria_regulacion>>

(* C17: no two records of the output share (pais, ingrediente,              *)
(* categoria_regulacion), and every entry with no composite categories      *)
(* has exactly one record, of category 'Estándar'.                          *)
C17_UnRegistroPorTriple ==
    Terminado =>
         /\ Cardinality({Triple(datos_normalizados[i]) : i \in 1..Len(datos_normalizados)})
               = Len(datos_normalizados)
         /\ \A k \in 1..Len(EntradasVitaminas) :
               ~Compuesta(EntradasVitaminas[k])
                  => /\ Cardinality(DeEntrada(EntradasVitaminas[k], "Vitamina")) = 1
                     /\ \A i \in DeEntrada(EntradasVitaminas[k], "Vitamina") :
                           datos_normalizados[i].categoria_regulacion = "Estándar"
         /\ \A k \in 1..Len(EntradasMinerales) :
               /\ Cardinality(DeEntrada(EntradasMinerales[k], "Mineral")) = 1
               /\ \A i \in DeEntrada(EntradasMinerales[k], "Mineral") :
                     datos_normalizados[i].categoria_regulacion = "Estándar"

C17_Witness ==
    /\ Terminado
    /\ \E i, j \in 1..Len(datos_normalizados) :
          /\ i # j
          /\ datos_normalizados[i].pais = "Guatemala"
          /\ datos_normalizados[i].pais = datos_normalizados[j].pais
          /\ datos_normalizados[i].ingrediente = datos_normalizados[j].ingrediente
          /\ datos_normalizados[i].categoria_regulacion = "Suplementos Alimenticios"
          /\ datos_normalizados[j].categoria_regulacion = "Productos Farmacéuticos"

Paises == {vitaminas_raw[k][1] : k \in 1..Len(vitaminas_raw)}
             \cup {minerales_raw[k][1] : k \in 1..Len(minerales_raw)}

\* the number of entries of a table for country p
EntradasDe(entradas, p) == Cardinality({k \in 1..Len(entradas) : entradas[k].pais = p})

RegistrosDe(p, tipo) ==
    Cardinality({i \in 1..Len(datos_normalizados) :
                    datos_normalizados[i].pais = p /\ datos_normalizados[i].tipo = tipo})

\* a country whose vitamins take the composite branch
ConCompuestas(p) ==
    \E k \in 1..Len(EntradasVitaminas) :
       EntradasVitaminas[k].pais = p /\ Compuesta(EntradasVitaminas[k])

\* 1 for the k-th vitamin entry, the number of its categories when composite
RegistrosEsperados(k) ==
    IF Compuesta(EntradasVitaminas[k])
    THEN Len(EntradasEsperadas(ExtraerReferencias(
                Str(EntradasVitaminas[k].valor_original))[1]))
    ELSE 1

\* the sum of RegistrosEsperados over the vitamin entries from the k-th on
SumaVitaminas(k) ==
    Cardinality(UNION {{<<j, c>> : c \in 1..RegistrosEsperados(j)} :
                          j \in k..Len(EntradasVitaminas)})

(* C18: for a country with no composite tagging the records of each kind   *)
(* are as many as its entries; the total is the sum over the entries of 1,  *)
(* or of the number of categories of a composite entry, the same on every   *)
(* run over the tables.                                                     *)
C18_Totales ==
    Terminado =>
      /\ \A p \in Paises :
            /\ RegistrosDe(p, "Mineral") = EntradasDe(EntradasMinerales, p)
            /\ ~ConCompuestas(p) => RegistrosDe(p, "Vitamina") = EntradasDe(EntradasVitaminas, p)
      /\ Len(datos_normalizados) = SumaVitaminas(1) + Len(EntradasMinerales)
      /\ Len(datos_normalizados) = 476
      /\ retorno = Return(datos_normalizados)

C18_Witness ==
    /\ Terminado
    /\ ConCompuestas("Guatemala")
    /\ RegistrosDe("Guatemala", "Vitamina") > EntradasDe(EntradasVitaminas, "Guatemala")
    /\ RegistrosDe("Argentina", "Vitamina") = 15
    /\ RegistrosDe("Guatemala", "Mineral") = 18

\* the table a record of the given kind comes from
TablaDe(tipo) == IF tipo = "Vitamina" THEN vitaminas_raw ELSE minerales_raw

\* the place of the country p among the countries of a table, as declared
LugarPais(tabla, p) == CHOOSE c \in 1..Len(tabla) : tabla[c][1] = p

\* the place of the ingredient among the labels of the c-th country, as declared
LugarIngrediente(tabla, c, ingrediente) ==
    CHOOSE j \in 1..Len(tabla[c][2]) : NombreLimpio(tabla[c][2][j][1]) = ingrediente

\* kind, country and ingredient of a record as places in the source tables
Lugar(r) ==
    LET tabla == TablaDe(r.tipo)
        c == LugarPais(tabla, r.pais)
    IN  <<IF r.tipo = "Vitamina" THEN 1 ELSE 2, c, LugarIngrediente(tabla, c, r.ingrediente)>>

\* a comes no later than b
NoDespues(a, b) ==
    \/ a[1] < b[1]
    \/ a[1] = b[1] /\ a[2] < b[2]
    \/ a[1] = b[1] /\ a[2] = b[2] /\ a[3] <= b[3]

\* the least position of a non-empty set of positions
Primera(posiciones) == CHOOSE i \in posiciones : \A j \in posiciones : i <= j

\* the categories of a composite entry, in the order of its segments
CategoriasDe(e) ==
    LET esp == EntradasEsperadas(ExtraerReferencias(Str(e.valor_original))[1])
    IN  [j \in 1..Len(esp) |-> esp[j].categoria]

(* C21: the output keeps the order of the source tables: all vitamin       *)
(* records come before all mineral records, within a kind the records      *)
(* follow the declared order of the countries and within a country that of *)
(* the ingredients, and the records of one composite entry are contiguous  *)
(* and in the order of its segments.                                       *)
C21_OrdenDeclarado ==
    Terminado =>
      LET lugares == [k \in 1..Len(datos_normalizados) |-> Lugar(datos_normalizados[k])]
      IN  /\ \A k \in 1..(Len(datos_normalizados) - 1) : NoDespues(lugares[k], lugares[k + 1])
          /\ \A k \in 1..Len(EntradasVitaminas) :
                Compuesta(EntradasVitaminas[k]) =>
                  LET de == DeEntrada(EntradasVitaminas[k], "Vitamina")
                      cats == CategoriasDe(EntradasVitaminas[k])
                  IN  /\ Cardinality(de) = Len(cats)
                      /\ \A j \in 1..Len(cats) :
                            /\ Primera(de) + j - 1 \in de
                            /\ datos_normalizados[Primera(de) + j - 1].categoria_regulacion
                                  = cats[j]

C21_Witness ==
    /\ Terminado
    /\ \E k \in 1..(Len(datos_normalizados) - 2) :
          /\ datos_normalizados[k].tipo = "Vitamina"
          /\ datos_normalizados[k].pais = "Guatemala"
          /\ datos_normalizados[k].categoria_regulacion = "Suplementos Alimenticios"
          /\ datos_normalizados[k + 1].ingrediente = datos_normalizados[k].ingrediente
          /\ datos_normalizados[k + 1].categoria_regulacion = "Productos Farmacéuticos"
          /\ datos_normalizados[k + 2].ingrediente # datos_normalizados[k].ingrediente
    /\ datos_normalizados[1].tipo = "Vitamina"
    /\ datos_normalizados[1].pais = vitaminas_raw[1][1]
    /\ datos_normalizados[Len(datos_normalizados)].tipo = "Mineral"
    /\ datos_normalizados[Len(datos_normalizados)].pais = minerales_raw[Len(minerales_raw)][1]

\* the (marker id, kind) pairs of the catalog
ClavesDelCatalogo ==
    {<<df_referencias[i].referencia, df_referencias[i].tipo>> : i \in 1..Len(df_referencias)}

\* the marker ids a record cites
CitadosPor(r) == IF r.referencias = None THEN <<>> ELSE Split(r.referencias.s, ",")

(* C30: every marker id in the referencias field of a record of the output *)
(* is in the reference table built for the kind of that record.            *)
C30_ReferenciasEnCatalogo ==
    Terminado =>
      \A i \in 1..Len(datos_normalizados) :
         \A k \in 1..Len(CitadosPor(datos_normalizados[i])) :
            <<CitadosPor(datos_normalizados[i])[k], datos_normalizados[i].tipo>>
               \in ClavesDelCatalogo

C30_Witness ==
    /\ Terminado
    /\ \E i, j \in 1..Len(datos_normalizados) :
          /\ datos_normalizados[i].tipo = "Vitamina"
          /\ CitadosPor(datos_normalizados[i]) = <<"61">>
          /\ datos_normalizados[j].tipo = "Mineral"
          /\ CitadosPor(datos_normalizados[j]) = <<"72">>
          /\ <<"72", "Vitamina">> \notin ClavesDelCatalogo

\* the label ends in one parenthesized group and holds no other parenthesis
TieneSufijo(l) ==
    /\ Len(l) >= 2
    /\ Ch(l, Len(l)) = ")"
    /\ Cardinality({i \in 1..Len(l) : Ch(l, i) = "("}) = 1
    /\ Cardinality({i \in 1..Len(l) : Ch(l, i) = ")"}) = 1

SinParentesis(l) == \A i \in 1..Len(l) : Ch(l, i) \notin {"(", ")"}

\* the text between the parentheses of the suffix
TextoDelSufijo(l) == SubSeq(l, Find(l, "(") + 1, Len(l) - 1)

RECURSIVE SinEspaciosFinales(_)
SinEspaciosFinales(l) ==
    IF l # "" /\ Ch(l, Len(l)) \in Whitespace
    THEN SinEspaciosFinales(SubSeq(l, 1, Len(l) - 1))
    ELSE l

\* the label without its suffix and the whitespace before it
SinSufijo(l) == SinEspaciosFinales(SubSeq(l, 1, Find(l, "(") - 1))

(* C25: every record holds in unidad the text of the parenthesized suffix  *)
(* of the label of its entry, or 'unidad' when the label has no            *)
(* parentheses, and in ingrediente the label without that suffix and the   *)
(* whitespace before it.                                                   *)
C25_UnidadEIngrediente ==
    Procesada =>
      /\ TieneSufijo(valor.etiqueta) \/ SinParentesis(valor.etiqueta)
      /\ \A k \in 1..Len(datos_normalizados) :
            /\ TieneSufijo(valor.etiqueta) =>
                  /\ datos_normalizados[k].unidad = TextoDelSufijo(valor.etiqueta)
                  /\ datos_normalizados[k].ingrediente = SinSufijo(valor.etiqueta)
            /\ SinParentesis(valor.etiqueta) =>
                  /\ datos_normalizados[k].unidad = "unidad"
                  /\ datos_normalizados[k].ingrediente = valor.etiqueta

C25_Witness ==
    /\ Procesada
    /\ valor.etiqueta = "Vitamina A / Retinol (µg)"
    /\ Len(datos_normalizados) = 1
    /\ datos_normalizados[1].unidad = "µg"
    /\ datos_normalizados[1].ingrediente = "Vitamina A / Retinol"

\* the default unit, and a suffix after more than one space
C25_SinParentesis ==
    /\ Procesada
    /\ Len(datos_normalizados) >= 1
    /\ \/ valor.etiqueta = "Hierro" /\ datos_normalizados[1].unidad = "unidad"
       \/ valor.etiqueta = "Zinc  (mg)" /\ datos_normalizados[1].ingrediente = "Zinc"

\* the entry takes the standard branch and the separator chosen for its
\* residual gives three or more parts
TresOMasPartes ==
    /\ Procesada
    /\ ~RamaCompuesta
    /\ Len(Partes(ValorCorregido(Residuo))) >= 3

\* the residual as a whole, read as a number
NumeroEntero == PyFloat(Replace(ValorCorregido(Residuo), ",", "."))

(* C28: when the chosen separator gives three or more parts no part is     *)
(* parsed on its own: parsear_rango returns (null, null) and the record is *)
(* emitted with category 'Estándar' and establecido = false.               *)
C28_Original ==
    TresOMasPartes =>
      /\ Len(datos_normalizados) = 1
      /\ datos_normalizados[1].minimo = None
      /\ datos_normalizados[1].maximo = None
      /\ datos_normalizados[1].categoria_regulacion = "Estándar"
      /\ datos_normalizados[1].establecido = FALSE

(* C28 as the code has it: with three or more parts no part is parsed on   *)
(* its own and the whole string is read as a single value; the one record  *)
(* is 'Estándar' with null bounds and establecido = false, unless the      *)
(* whole string is a number, which then is both bounds ('-1e-5').          *)
C28_ValorUnicoEntero ==
    TresOMasPartes =>
      /\ Len(datos_normalizados) = 1
      /\ datos_normalizados[1].categoria_regulacion = "Estándar"
      /\ IF NumeroEntero.t = "float"
         THEN /\ datos_normalizados[1].minimo = NumeroEntero
              /\ datos_normalizados[1].maximo = NumeroEntero
              /\ datos_normalizados[1].establecido = TRUE
         ELSE /\ datos_normalizados[1].minimo = None
              /\ datos_normalizados[1].maximo = None
              /\ datos_normalizados[1].establecido = FALSE

C28_Witness ==
    /\ pc = "fin_mineral"
    /\ valor.pais = "Guatemala"
    /\ valor.valor_original = "AL:70-250 / PF:62-400 [61]"
    /\ TresOMasPartes
    /\ Len(datos_normalizados) = 1
    /\ datos_normalizados[1].minimo = None
    /\ datos_normalizados[1].categoria_regulacion = "Estándar"
    /\ datos_normalizados[1].establecido = FALSE

\* a whole string of three parts that is a number
C28_NumeroConTresPartes ==
    /\ TresOMasPartes
    /\ valor.valor_original = "-1e-5"
    /\ datos_normalizados[1].minimo = Fin(TRUE, 1, 0 - 5)
    /\ datos_normalizados[1].establecido = TRUE

(* C19: every entry, whatever its value text and its branch, gets a record *)
(* and the iteration does not raise.                                        *)
C19_NingunaEntradaSePierde ==
    /\ pc # "lanza"
    /\ Procesada => Len(datos_normalizados) >= 1

\* the same, for the values that hold the text 'No establecidos' nowhere
C19_SinCentinela ==
    ~Contains(valor.valor_original, "No establecidos") => C19_NingunaEntradaSePierde

\* the markers of the value at hand, group by group
Marcadores == MarcadoresDe(valor.valor_original, Tramos(valor.valor_original, 1), 1)

(* C20: every record emitted holds the untouched value string of its entry *)
(* in valor_original, and in referencias the markers joined by commas, or   *)
(* null when there is none; the records of one composite entry share both.  *)
C20_OriginalYReferencias ==
    Procesada =>
      \A k \in 1..Len(datos_normalizados) :
         /\ datos_normalizados[k].valor_original = valor.valor_original
         /\ datos_normalizados[k].referencias
               = IF Marcadores = <<>> THEN None ELSE Str(Join(",", Marcadores))
         /\ datos_normalizados[k].referencias = datos_normalizados[1].referencias

C20_Witness ==
    /\ RamaCompuesta
    /\ valor.valor_original = "AL:15-3000 [2] / PF:160-3000 [3]"
    /\ Len(datos_normalizados) = 2
    /\ datos_normalizados[1].referencias = Str("2,3")
    /\ datos_normalizados[2].referencias = Str("2,3")
    /\ datos_normalizados[2].valor_original = "AL:15-3000 [2] / PF:160-3000 [3]"

=============================================================================
